---- MODULE Spec2Model ----
(***************************************************************************)
(* A model of the x402 action provider of coinbase-agentkit                *)
(* (action_providers/x402): the service allow-list, the 402 negotiation    *)
(* (make_http_request, retry_with_x402, make_http_request_with_x402),      *)
(* service registration and the helpers of utils.py they call.             *)
(*                                                                         *)
(* Python strings that the code inspects character by character (URLs,    *)
(* asset addresses, amounts) are sequences of one-character strings.      *)
(* Strings that are only compared as a whole (network identifiers, HTTP   *)
(* methods, result messages) are TLA+ strings.  None and the empty string  *)
(* are both written << >> where the code only tests truthiness.           *)
(***************************************************************************)
EXTENDS Integers, Sequences, FiniteSets, TLC

VARIABLES
    registered_services,  \* x402ActionProvider._registered_services
    config,               \* x402ActionProvider._config
    surfaced,             \* every option returned so far in acceptablePaymentOptions
    pc,                   \* "idle": the agent loop may call; "returned": a call has returned
    call,                 \* the arguments of the invocation that returned last
    result,               \* the JSON result that invocation returned
    http_log,             \* the HTTP requests that invocation issued, in order
    signer,               \* whether it called to_signer, and the amount signed
    url_parts,            \* SpecUrl: the components the checked URL was rendered from
    allowed,              \* SpecUrl: the verdict of is_url_allowed
    fetch,                \* SpecPages: the locals of fetch_all_discovery_resources
    wallet_log,           \* SpecAave: the transactions sent and the receipts awaited
    approvals             \* on chain: the (network, contract, owner, operator) set by setApprovalForAll

vars == <<registered_services, config, surfaced, pc, call, result, http_log,
          signer, url_parts, allowed, fetch, wallet_log, approvals>>

(***************************************************************************)
(* Strings                                                                 *)
(***************************************************************************)
UpperChars == <<"A","B","C","D","E","F","G","H","I","J","K","L","M",
                "N","O","P","Q","R","S","T","U","V","W","X","Y","Z">>

LowerChars == <<"a","b","c","d","e","f","g","h","i","j","k","l","m",
                "n","o","p","q","r","s","t","u","v","w","x","y","z">>

DigitChars == <<"0","1","2","3","4","5","6","7","8","9">>

Range(s) == {s[i] : i \in DOMAIN s}

\* str.lower() on one character
LowerChar(c) ==
    IF c \in Range(UpperChars)
    THEN LowerChars[CHOOSE i \in DOMAIN UpperChars : UpperChars[i] = c]
    ELSE c

\* str.lower()
Lower(s) == [i \in DOMAIN s |-> LowerChar(s[i])]

\* str.startswith(prefix)
StartsWith(s, prefix) ==
    /\ Len(prefix) <= Len(s)
    /\ SubSeq(s, 1, Len(prefix)) = prefix

\* str.find(c): the first index of a character of cs at or after from, 0 when none
FindAny(s, cs, from) ==
    IF \E i \in from..Len(s) : s[i] \in cs
    THEN CHOOSE i \in from..Len(s) :
             /\ s[i] \in cs
             /\ \A j \in from..(i - 1) : s[j] \notin cs
    ELSE 0

\* int(s) for the digits of s, most significant first
RECURSIVE DigitsValue(_)
DigitsValue(s) ==
    IF s = << >> THEN 0
    ELSE 10 * DigitsValue(SubSeq(s, 1, Len(s) - 1))
         + (CHOOSE d \in 0..9 : DigitChars[d + 1] = s[Len(s)])

\* whether int(s) returns rather than raising ValueError
IsDecimal(s) == s # << >> /\ \A i \in DOMAIN s : s[i] \in Range(DigitChars)

(***************************************************************************)
(* urllib.parse.urlparse, as far as is_service_registered and              *)
(* register_service read its result: scheme and netloc.                    *)
(***************************************************************************)
AlphaChars == Range(UpperChars) \cup Range(LowerChars)

SchemeChars == AlphaChars \cup Range(DigitChars) \cup {"+", "-", "."}

UrlHasScheme(url) ==
    LET i == FindAny(url, {":"}, 1)
    IN  /\ i > 1
        /\ url[1] \in AlphaChars
        /\ \A j \in 1..(i - 1) : url[j] \in SchemeChars

UrlScheme(url) ==
    IF UrlHasScheme(url)
    THEN Lower(SubSeq(url, 1, FindAny(url, {":"}, 1) - 1))
    ELSE << >>

UrlAfterScheme(url) ==
    IF UrlHasScheme(url)
    THEN SubSeq(url, FindAny(url, {":"}, 1) + 1, Len(url))
    ELSE url

UrlNetloc(url) ==
    LET rest == UrlAfterScheme(url)
        delim == FindAny(rest, {"/", "?", "#"}, 3)
    IN  IF StartsWith(rest, <<"/", "/">>)
        THEN SubSeq(rest, 3, IF delim = 0 THEN Len(rest) ELSE delim - 1)
        ELSE << >>

\* urlparse raises ValueError("Invalid IPv6 URL") on an unbalanced bracket
UrlParseRaises(url) ==
    LET n == Range(UrlNetloc(url))
    IN  ("[" \in n) # ("]" \in n)

(***************************************************************************)
(* utils.py: the allow-list gate                                           *)
(***************************************************************************)
is_service_registered(url, services) ==
    IF services = {} THEN FALSE
    ELSE IF UrlParseRaises(url) THEN FALSE
    ELSE LET origin == UrlScheme(url) \o <<":", "/", "/">> \o UrlNetloc(url)
         IN  \E registered \in services :
                 origin = registered \/ StartsWith(url, registered)

is_url_allowed(url, services) == is_service_registered(url, services)

(***************************************************************************)
(* constants.py and the wallet                                             *)
(***************************************************************************)
NetworkIds == {"base-mainnet", "base-sepolia", "solana-mainnet", "solana-devnet"}

NETWORK_MAPPINGS ==
    [n \in NetworkIds |->
        CASE n = "base-mainnet"   -> <<"base", "eip155:8453">>
          [] n = "base-sepolia"   -> <<"base-sepolia", "eip155:84532">>
          [] n = "solana-mainnet" -> <<"solana", "solana:5eykt4UsFv8P8NJdTREpY1vzqKqZKvdp">>
          [] n = "solana-devnet"  -> <<"solana-devnet", "solana:EtWTRABZaYq6iMfeYKouRu166VU2xqa1">>]

\* Stand-ins for the address tables, which the code treats as opaque data: only
\* equality and letter case are ever inspected.  Each is a short mixed-case string.
UsdcBaseMainnet == <<"0", "x", "8", "3", "f", "C">>
UsdcBaseSepolia == <<"0", "x", "0", "3", "C", "b">>
UsdcSolanaMainnet == <<"E", "P", "j", "F">>
UsdcSolanaDevnet == <<"4", "z", "M", "M">>
OtherToken == <<"0", "x", "4", "2", "a", "A">>

\* erc20/constants.py: the USDC entry of TOKEN_ADDRESSES_BY_SYMBOLS[network_id],
\* << >> where the network has none
TOKEN_ADDRESSES_BY_SYMBOLS_USDC(network_id) ==
    CASE network_id = "base-mainnet" -> UsdcBaseMainnet
      [] network_id = "base-sepolia" -> UsdcBaseSepolia
      [] OTHER -> << >>

SOLANA_USDC_ADDRESSES(network_id) ==
    CASE network_id = "solana-mainnet" -> UsdcSolanaMainnet
      [] network_id = "solana-devnet" -> UsdcSolanaDevnet
      [] OTHER -> << >>

\* A wallet provider: what get_network() returns, and whether the object is an
\* EvmWalletProvider (the isinstance tests of the code).
EvmBaseWallet ==
    [protocol_family |-> "evm", network_id |-> "base-mainnet", is_evm_provider |-> TRUE]

EvmSepoliaWallet ==
    [protocol_family |-> "evm", network_id |-> "base-sepolia", is_evm_provider |-> TRUE]

SvmWallet ==
    [protocol_family |-> "svm", network_id |-> "solana-mainnet", is_evm_provider |-> FALSE]

Wallets == {EvmBaseWallet, EvmSepoliaWallet, SvmWallet}

\* a table that lists only the legacy short name of the wallet's chain
get_x402_networks_legacy_only(network) ==
    IF network.network_id = "" THEN << >>
    ELSE IF network.network_id \in DOMAIN NETWORK_MAPPINGS
         THEN <<NETWORK_MAPPINGS[network.network_id][1]>>
         ELSE <<network.network_id>>

(***************************************************************************)
(* utils.py: network identifiers, USDC recognition, the payment limit      *)
(***************************************************************************)
get_x402_networks(network) ==
    IF network.network_id = "" THEN << >>
    ELSE IF network.network_id \in DOMAIN NETWORK_MAPPINGS
         THEN NETWORK_MAPPINGS[network.network_id]
         ELSE <<network.network_id>>

\* a comparison that folds letter case for the Solana mint as well
is_usdc_asset_caseless(asset, wallet_provider) ==
    LET is_evm_network == wallet_provider.protocol_family = "evm"
        is_svm_network == wallet_provider.protocol_family = "svm"
        evm_usdc == TOKEN_ADDRESSES_BY_SYMBOLS_USDC(wallet_provider.network_id)
        svm_usdc == SOLANA_USDC_ADDRESSES(wallet_provider.network_id)
    IN  IF is_evm_network /\ wallet_provider.is_evm_provider /\ evm_usdc # << >>
        THEN Lower(asset) = Lower(evm_usdc)
        ELSE IF is_svm_network /\ svm_usdc # << >>
        THEN Lower(asset) = Lower(svm_usdc)
        ELSE FALSE

is_usdc_asset(asset, wallet_provider) ==
    LET is_evm_network == wallet_provider.protocol_family = "evm"
        is_svm_network == wallet_provider.protocol_family = "svm"
        evm_usdc == TOKEN_ADDRESSES_BY_SYMBOLS_USDC(wallet_provider.network_id)
        svm_usdc == SOLANA_USDC_ADDRESSES(wallet_provider.network_id)
    IN  IF is_evm_network /\ wallet_provider.is_evm_provider /\ evm_usdc # << >>
        THEN Lower(asset) = Lower(evm_usdc)
        ELSE IF is_svm_network /\ svm_usdc # << >>
        THEN asset = svm_usdc
        ELSE FALSE

\* a filter that lets every option through
filter_nothing(accepts, wallet_provider) == accepts

\* filter_usdc_payment_options: the options of accepts whose asset is USDC, in order
filter_usdc_payment_options(accepts, wallet_provider) ==
    SelectSeq(accepts, LAMBDA opt : is_usdc_asset(opt.asset, wallet_provider))

usdc_decimals == 6

RECURSIVE Pow10(_)
Pow10(n) == IF n = 0 THEN 1 ELSE 10 * Pow10(n - 1)

\* A float is carried as a decimal numeral: n at scale d stands for the binary64
\* number nearest to n / 10^d.  int(x * 10**e) for that x is the product
\* n * 10^(e-d), or one less where the binary64 product comes out just below the
\* integer and int() truncates it, as in int(2.01 * 10**6) = 2009999 and
\* int(0.29 * 10**2) = 28.  These are the <<hundredths, e>> where it does, among
\* the floats of the model: hundredths up to 2.10 for e = 6 and up to 1.20 for
\* e = 2 (for e below 2 the floats of the model are multiples of 10^-e, whose
\* products are exact).
FloatProductFallsShort ==
    {<<201, 6>>, <<203, 6>>, <<205, 6>>, <<207, 6>>, <<209, 6>>,
     <<29, 2>>, <<57, 2>>, <<58, 2>>, <<113, 2>>, <<114, 2>>, <<115, 2>>, <<116, 2>>}

\* int(value * 10**e), value the float of the numeral n at scale d, d <= 2 and d <= e
int_of_float_product(n, d, e) ==
    n * Pow10(e - d) - (IF <<n * Pow10(2 - d), e>> \in FloatProductFallsShort THEN 1 ELSE 0)

\* a ceiling that comes out a whole hundredth short wherever the float product
\* falls short at all
max_amount_atomic_hundredth_short(max_payment_usdc) ==
    IF <<max_payment_usdc, usdc_decimals>> \in FloatProductFallsShort
    THEN (max_payment_usdc - 1) * Pow10(usdc_decimals - 2) - 1
    ELSE max_payment_usdc * Pow10(usdc_decimals - 2)

\* int(max_payment_usdc * 10 ** usdc_decimals); max_payment_usdc is a float, which
\* the model carries in hundredths of a USDC (100 is 1.0, 201 is 2.01)
max_amount_atomic(max_payment_usdc) ==
    int_of_float_product(max_payment_usdc, 2, usdc_decimals)

\* validate_payment_limit(...)["is_valid"]; int(amount_atomic) raises on a string
\* that is not a decimal integer (see validate_payment_limit_raises)
validate_payment_limit(amount_atomic, max_payment_usdc) ==
    DigitsValue(amount_atomic) <= max_amount_atomic(max_payment_usdc)

validate_payment_limit_raises(amount_atomic) == ~IsDecimal(amount_atomic)

\* handle_http_error: the message family chosen from the exception's attributes
handle_http_error(error) ==
    IF error.has_response THEN "HTTP error when accessing"
    ELSE IF error.has_request THEN "Network error when accessing"
    ELSE "Error making request to"

(***************************************************************************)
(* Payment options, HTTP responses and results                             *)
(***************************************************************************)
\* An option as a 402 response carries it (a JSON object).  v1 servers send the
\* amount as maxAmountRequired, v2 servers as amount or price.
WireOption(asset, network, maxAmountRequired, amount, price) ==
    [asset |-> asset, network |-> network, maxAmountRequired |-> maxAmountRequired,
     max_amount_required |-> << >>, amount |-> amount, price |-> price]

\* schemas.py PaymentOptionSchema: the model built from a JSON object keeps the
\* declared fields; a key that is no field of the schema (maxAmountRequired) is dropped.
PaymentOptionSchema(opt) ==
    [asset |-> opt.asset, network |-> opt.network,
     max_amount_required |-> opt.max_amount_required,
     amount |-> opt.amount, price |-> opt.price]

\* a or b or c or d on strings: the first non-empty one, else the last
OrChain(values) ==
    IF \E i \in DOMAIN values : values[i] # << >>
    THEN values[CHOOSE i \in DOMAIN values :
                    /\ values[i] # << >>
                    /\ \A j \in 1..(i - 1) : values[j] = << >>]
    ELSE values[Len(values)]

NoOption == [asset |-> << >>, network |-> "", max_amount_required |-> << >>,
             amount |-> << >>, price |-> << >>]

\* exceptions, by the attributes handle_http_error inspects
\* and, for an exception that carries a response, by what response.json() gives:
\* a JSON object, another JSON value, or nothing decodable
TransportError == [has_response |-> FALSE, has_request |-> TRUE, json |-> "none"]
PlainError == [has_response |-> FALSE, has_request |-> FALSE, json |-> "none"]
ResponseError(json) == [has_response |-> TRUE, has_request |-> TRUE, json |-> json]

\* what requests.request returns or raises
Response(status_code, header, body) ==
    [raises |-> FALSE, error |-> PlainError, status_code |-> status_code,
     header |-> header, body |-> body]

RaisedResponse(error) ==
    [raises |-> TRUE, error |-> error, status_code |-> 0,
     header |-> [kind |-> "absent", accepts |-> << >>],
     body |-> [is_json |-> FALSE, accepts |-> << >>]]

NoHeader == [kind |-> "absent", accepts |-> << >>]
NoBody == [is_json |-> FALSE, accepts |-> << >>]
NoResponse == RaisedResponse(PlainError)

\* what the x402 session's request returns or raises: the final response, and the
\* atomic amount of the payment the client signed on the way (-1: it signed none).
\* The client is built from the wallet alone (_create_x402_client), so the payment
\* it signs is the one the server's 402 demands at that moment.
NoPaid == [raises |-> TRUE, error |-> PlainError, signed |-> -1, status_code |-> 0,
           proof |-> "absent"]

NoResult ==
    [message |-> "", status |-> "", error |-> FALSE, success |-> "absent",
     httpStatus |-> 0, method |-> "", has_options |-> FALSE,
     acceptablePaymentOptions |-> << >>, originalOptions |-> << >>,
     nextSteps |-> "", paymentProof |-> "absent", paymentUsed |-> << >>,
     totalRegisteredServices |-> 0, total |-> 0, exception |-> FALSE]

ErrorResult(message) == [NoResult EXCEPT !.error = TRUE, !.message = message]

\* utils.py line 466: error_details.get fails on a decoded body that is no object
handle_http_error_raises(error) == error.has_response /\ error.json = "other"

\* the except clause of an action (lines 365-366, 551-552, 686-687): the result
\* of handle_http_error, or the exception that leaves it
handled(error) ==
    IF handle_http_error_raises(error)
    THEN [NoResult EXCEPT !.exception = TRUE]
    ELSE ErrorResult(handle_http_error(error))

NoSigner == [created |-> FALSE, signed |-> -1]

\* what one invocation did: its result, the requests it issued, its use of the
\* signer and the options it surfaced
Outcome(res, http, sgn, options) ==
    [result |-> res, http |-> http, signer |-> sgn, surfaced |-> options]

\* a request that always carries a payment header
Request_carrying_payment(method, paid) == [method |-> method, paid |-> TRUE]

Request(method, paid) == [method |-> method, paid |-> paid]

(***************************************************************************)
(* x402_action_provider.py: make_http_request                              *)
(***************************************************************************)
can_have_body(method) == method \in {"POST", "PUT", "PATCH"}

\* a retry rule that spares the body-carrying methods
retries_on_without_body(method, response) ==
    response.status_code = 404 /\ method \notin {"POST", "PUT", "PATCH"}

\* lines 244-246: whether a response is retried, and under which method
retries_on(method, response) == response.status_code = 404

retry_method(method) == IF method = "GET" THEN "POST" ELSE "GET"

\* requirements taken from the body whenever the body lists any
payment_requirements_body_first(response) ==
    IF response.body.is_json /\ Len(response.body.accepts) > 0
    THEN response.body.accepts
    ELSE IF response.header.kind = "decoded" THEN response.header.accepts ELSE << >>

\* lines 273-290: the accepts list the 402 handling works on
header_accepts(response) ==
    IF response.header.kind = "decoded" THEN response.header.accepts ELSE << >>

payment_requirements_raise(response) ==
    Len(header_accepts(response)) = 0 /\ ~response.body.is_json

payment_requirements(response) ==
    IF Len(header_accepts(response)) = 0
    THEN response.body.accepts
    ELSE header_accepts(response)

InSeq(x, s) == \E i \in DOMAIN s : s[i] = x

\* a network test that is satisfied by any USDC option
has_any_option(usdc_options, wallet_networks) == Len(usdc_options) > 0

\* lines 295, 311: any(net in wallet_networks for net in available_networks)
has_matching_network(usdc_options, wallet_networks) ==
    \E i \in DOMAIN usdc_options : InSeq(usdc_options[i].network, wallet_networks)

\* lines 315-328 with utils.format_payment_option: int(max_amount_required) is
\* evaluated for every matching option and raises ValueError on a non-integer
format_options_raise(usdc_options, wallet_networks) ==
    \E i \in DOMAIN usdc_options :
        /\ InSeq(usdc_options[i].network, wallet_networks)
        /\ ~IsDecimal(OrChain(<<usdc_options[i].maxAmountRequired,
                                usdc_options[i].max_amount_required,
                                usdc_options[i].amount, <<"0">> >>))

\* lines 269-363: the result for a 402 response
challenge_result(wallet_provider, response) ==
    LET wallet_networks == get_x402_networks(wallet_provider)
        accepts_array == payment_requirements(response)
        usdc_options == filter_usdc_payment_options(accepts_array, wallet_provider)
        matching == has_matching_network(usdc_options, wallet_networks)
    IN  IF payment_requirements_raise(response)
        THEN handled(PlainError)
        ELSE IF Len(usdc_options) = 0
        THEN [ErrorResult("No USDC payment option available")
                 EXCEPT !.originalOptions = accepts_array]
        ELSE IF matching /\ format_options_raise(usdc_options, wallet_networks)
        THEN handled(PlainError)
        ELSE [NoResult EXCEPT !.status = "error_402_payment_required",
                              !.has_options = TRUE,
                              !.acceptablePaymentOptions = usdc_options,
                              !.nextSteps = IF matching THEN "ask to retry with payment"
                                            ELSE "wallet networks do not match"]

\* lines 211-366
make_http_request_outcome(services, wallet_provider, url, method, r1, r2) ==
    IF ~is_url_allowed(url, services)
    THEN Outcome(ErrorResult("Service not registered"), << >>, NoSigner, {})
    ELSE IF r1.raises
    THEN Outcome(handled(r1.error),
                 <<Request(method, FALSE)>>, NoSigner, {})
    ELSE LET retried == retries_on(method, r1)
             final_method == IF retried THEN retry_method(method) ELSE method
             response == IF retried THEN r2 ELSE r1
             http == IF retried
                     THEN <<Request(method, FALSE), Request(final_method, FALSE)>>
                     ELSE <<Request(method, FALSE)>>
         IN  IF response.raises
             THEN Outcome(handled(response.error),
                          http, NoSigner, {})
             ELSE IF response.status_code # 402
             THEN Outcome([NoResult EXCEPT !.success = "true",
                                           !.method = final_method,
                                           !.httpStatus = response.status_code],
                          http, NoSigner, {})
             ELSE LET res == challenge_result(wallet_provider, response)
                  IN  Outcome(res, http, NoSigner, Range(res.acceptablePaymentOptions))

(***************************************************************************)
(* x402_action_provider.py: the paid request                               *)
(***************************************************************************)
\* lines 484-491, 635-641: the requests the x402 session issues: the first, and
\* a second one carrying the payment when the client signed one
paid_http(method, paid) ==
    IF paid.signed >= 0
    THEN <<Request(method, FALSE), Request(method, TRUE)>>
    ELSE <<Request(method, FALSE)>>

\* lines 495-506, 645-656: payment_proof
payment_proof(paid) ==
    CASE paid.proof = "absent" -> "null"
      [] paid.proof = "b64json" -> "decoded"
      [] OTHER -> "raw"

\* a settlement test that takes every 2xx status for a settled payment
is_settled_any_2xx(status_code) == status_code \in 200..299

\* lines 515-517, 658-660: "Payment is only settled on 200 status"
is_settled(status_code) == status_code = 200

\* lines 424-430: the amount the limit is checked against
payment_amount(selected_payment_option) ==
    OrChain(<<selected_payment_option.max_amount_required,
              selected_payment_option.amount,
              selected_payment_option.price, <<"0">> >>)

\* lines 508-513
\* the reported amount with the default of the limit check carried over
amount_used_defaulted(selected_payment_option) ==
    OrChain(<<selected_payment_option.max_amount_required,
              selected_payment_option.amount,
              selected_payment_option.price, <<"0">> >>)
amount_used(selected_payment_option) ==
    OrChain(<<selected_payment_option.max_amount_required,
              selected_payment_option.amount,
              selected_payment_option.price>>)

\* retry checks with the allow-list test left out, as if the verdict of the first
\* step of the two-step flow were taken over
retry_rejection_without_gate(services, cfg, wallet_provider, url, selected_payment_option) ==
    IF ~is_usdc_asset(selected_payment_option.asset, wallet_provider)
    THEN "Only USDC payments are supported"
    ELSE IF validate_payment_limit_raises(payment_amount(selected_payment_option))
    THEN handle_http_error(PlainError)
    ELSE IF ~validate_payment_limit(payment_amount(selected_payment_option),
                                    cfg.max_payment_usdc)
    THEN "Payment exceeds limit"
    ELSE IF ~InSeq(selected_payment_option.network, get_x402_networks(wallet_provider))
    THEN "Network mismatch"
    ELSE IF ~wallet_provider.is_evm_provider
    THEN "Unsupported wallet provider"
    ELSE ""

\* retry checks with the spending-limit test left out
retry_rejection_without_limit(services, cfg, wallet_provider, url, selected_payment_option) ==
    IF ~is_url_allowed(url, services)
    THEN "Service not registered"
    ELSE IF ~is_usdc_asset(selected_payment_option.asset, wallet_provider)
    THEN "Only USDC payments are supported"
    ELSE IF ~InSeq(selected_payment_option.network, get_x402_networks(wallet_provider))
    THEN "Network mismatch"
    ELSE IF ~wallet_provider.is_evm_provider
    THEN "Unsupported wallet provider"
    ELSE ""

\* lines 394-468: the check that rejects the call, "" when every check passes
retry_rejection(services, cfg, wallet_provider, url, selected_payment_option) ==
    IF ~is_url_allowed(url, services)
    THEN "Service not registered"
    ELSE IF ~is_usdc_asset(selected_payment_option.asset, wallet_provider)
    THEN "Only USDC payments are supported"
    ELSE IF validate_payment_limit_raises(payment_amount(selected_payment_option))
    THEN handle_http_error(PlainError)
    ELSE IF ~validate_payment_limit(payment_amount(selected_payment_option),
                                    cfg.max_payment_usdc)
    THEN "Payment exceeds limit"
    ELSE IF ~InSeq(selected_payment_option.network, get_x402_networks(wallet_provider))
    THEN "Network mismatch"
    ELSE IF ~wallet_provider.is_evm_provider
    THEN "Unsupported wallet provider"
    ELSE ""

\* lines 470-549: the signer is created, the request goes through the x402 session
retry_paid_result(method, selected_payment_option, paid) ==
    IF paid.raises
    THEN handled(paid.error)
    ELSE IF ~is_settled(paid.status_code)
    THEN [NoResult EXCEPT !.status = "error",
                          !.message = "Payment was not settled",
                          !.httpStatus = paid.status_code,
                          !.method = method]
    ELSE [NoResult EXCEPT !.status = "success",
                          !.message = "Request completed successfully with payment",
                          !.method = method,
                          !.paymentUsed =
                              <<[network |-> selected_payment_option.network,
                                 asset |-> selected_payment_option.asset,
                                 amount |-> amount_used(selected_payment_option)]>>,
                          !.paymentProof = payment_proof(paid)]

\* lines 394-552
retry_with_x402_outcome(services, cfg, wallet_provider, url, method, selected_payment_option, paid) ==
    LET rejection == retry_rejection(services, cfg, wallet_provider, url,
                                     selected_payment_option)
    IN  IF rejection # ""
        THEN Outcome(ErrorResult(rejection), << >>, NoSigner, {})
        ELSE Outcome(retry_paid_result(method, selected_payment_option, paid),
                     paid_http(method, paid),
                     [created |-> TRUE, signed |-> paid.signed], {})

\* lines 658-684
direct_paid_result(method, paid) ==
    IF paid.raises
    THEN handled(paid.error)
    ELSE IF ~is_settled(paid.status_code)
    THEN [NoResult EXCEPT !.success = "false",
                          !.message = "Payment was not settled",
                          !.httpStatus = paid.status_code,
                          !.method = method]
    ELSE [NoResult EXCEPT !.success = "true",
                          !.message = "Request completed successfully",
                          !.httpStatus = paid.status_code,
                          !.method = method,
                          !.paymentProof = payment_proof(paid)]

\* lines 590-687
make_http_request_with_x402_outcome(services, cfg, wallet_provider, url, method, paid) ==
    IF ~is_url_allowed(url, services)
    THEN Outcome(ErrorResult("Service not registered"), << >>, NoSigner, {})
    ELSE IF ~wallet_provider.is_evm_provider
    THEN Outcome(ErrorResult("Unsupported wallet provider"), << >>, NoSigner, {})
    ELSE Outcome(direct_paid_result(method, paid), paid_http(method, paid),
                 [created |-> TRUE, signed |-> paid.signed], {})

(***************************************************************************)
(* x402_action_provider.py: register_service                               *)
(***************************************************************************)
\* lines 727-729
is_valid_url(url) ==
    /\ ~UrlParseRaises(url)
    /\ UrlScheme(url) # << >>
    /\ UrlNetloc(url) # << >>

\* a registry that holds the last URL registered and nothing else
register_service_services_replacing(services, cfg, url) ==
    IF cfg.allow_dynamic_service_registration /\ is_valid_url(url) THEN {url} ELSE services

\* lines 711-752: the registry after the call
register_service_services(services, cfg, url) ==
    IF cfg.allow_dynamic_service_registration /\ is_valid_url(url)
    THEN services \cup {url}
    ELSE services

register_service_result(services, cfg, url) ==
    IF ~cfg.allow_dynamic_service_registration
    THEN ErrorResult("Dynamic service registration is disabled")
    ELSE IF ~is_valid_url(url)
    THEN ErrorResult("Invalid URL format")
    ELSE [NoResult EXCEPT !.success = "true",
                          !.message = "Service registered successfully",
                          !.totalRegisteredServices =
                              Cardinality(services \cup {url})]

(***************************************************************************)
(* Bounds and input domains                                                *)
(***************************************************************************)
\* the ceilings max_payment_usdc a provider is constructed with: the whole numbers
\* of USDC 1..MaxPaymentUsdc, in hundredths
MaxPaymentUsdc == 1

\* the longest accepts list of a 402 response in SpecChallenge
MaxAccepts == 2

\* the largest registry in SpecUrl
MaxRegistry == 2

\* str(n) for n >= 0
RECURSIVE IntToStr(_)
IntToStr(n) ==
    IF n < 10 THEN <<DigitChars[n + 1]>>
    ELSE IntToStr(n \div 10) \o <<DigitChars[(n % 10) + 1]>>

SeqsUpTo(S, n) == UNION {[1..k -> S] : k \in 0..n}

ServiceUrl == <<"h", ":", "/", "/", "a">>
ServicePathUrl == <<"h", ":", "/", "/", "a", "/", "x">>
EvilUrl == <<"h", ":", "/", "/", "e">>
MalformedUrl == <<"a", "/", "x">>

Urls == {ServiceUrl, ServicePathUrl, EvilUrl, MalformedUrl}

Methods == {"GET", "POST", "PUT", "DELETE", "PATCH"}

\* the methods the interleaved calls of Spec use
SomeMethods == {"GET", "POST"}

SmallAmount == <<"1", "0", "0", "0", "0">>
DollarPrice == <<"$", "0", ".", "0", "1">>

OptMatch == WireOption(UsdcBaseMainnet, "eip155:8453", << >>, SmallAmount, << >>)
OptV1Over == WireOption(Lower(UsdcBaseMainnet), "base", <<"2", "0", "0", "0", "0", "0", "0">>, << >>, << >>)
OptOffNet == WireOption(UsdcBaseMainnet, "eip155:1", << >>, SmallAmount, << >>)
OptOther == WireOption(OtherToken, "eip155:8453", << >>, SmallAmount, << >>)
OptPrice == WireOption(UsdcBaseMainnet, "eip155:8453", << >>, << >>, DollarPrice)
OptSolana == WireOption(UsdcSolanaMainnet, "solana", << >>, SmallAmount, << >>)
OptBadAmount == WireOption(UsdcBaseMainnet, "eip155:8453", << >>, DollarPrice, << >>)

\* options a caller made up: an amount at and just over each ceiling, and a
\* dollar price on a network the wallet is not on, in EVM and in Solana USDC
OptWithAmount(n) == WireOption(UsdcBaseMainnet, "eip155:8453", << >>, IntToStr(n), << >>)
OptPriceOffNet == WireOption(UsdcBaseMainnet, "eip155:1", << >>, << >>, DollarPrice)
OptSolanaPriceOffNet ==
    WireOption(UsdcSolanaMainnet, "eip155:1", << >>, << >>, DollarPrice)

SelectableOptions ==
    {PaymentOptionSchema(o) :
        o \in {OptMatch, OptV1Over, OptOffNet, OptOther, OptPrice, OptSolana,
               OptPriceOffNet, OptSolanaPriceOffNet}
              \cup {OptWithAmount(max_amount_atomic(c) + d) :
                        c \in {100 * k : k \in 1..MaxPaymentUsdc}, d \in {0, 1}}}

DecodedHeader(accepts) == [kind |-> "decoded", accepts |-> accepts]
UndecodableHeader == [kind |-> "undecodable", accepts |-> << >>]
JsonBody(accepts) == [is_json |-> TRUE, accepts |-> accepts]

\* the server behaviours of Spec
Responses ==
    {Response(200, NoHeader, NoBody),
     Response(404, NoHeader, NoBody),
     RaisedResponse(TransportError),
     Response(402, DecodedHeader(<<OptMatch, OptOffNet>>), JsonBody(<<OptV1Over>>)),
     Response(402, NoHeader, JsonBody(<<OptV1Over, OptOther>>)),
     Response(402, NoHeader, JsonBody(<<OptOther>>)),
     Response(402, UndecodableHeader, JsonBody(<<OptOffNet>>)),
     Response(402, DecodedHeader(<<OptPrice>>), NoBody),
     Response(402, NoHeader, JsonBody(<<OptSolana>>))}

\* the server behaviours of SpecChallenge: every header and body over short
\* accepts lists
ChallengeOptions == {OptMatch, OptOffNet, OptOther, OptBadAmount}

ChallengeResponses ==
    {Response(200, NoHeader, NoBody), Response(404, NoHeader, NoBody),
     Response(500, NoHeader, NoBody), RaisedResponse(TransportError)}
    \cup {Response(402, h, b) :
            h \in {NoHeader, UndecodableHeader}
                  \cup {DecodedHeader(a) : a \in SeqsUpTo(ChallengeOptions, MaxAccepts)},
            b \in {NoBody}
                  \cup {JsonBody(a) : a \in SeqsUpTo(ChallengeOptions, MaxAccepts)}}

\* what the paid request can come back with
PaidResponse(status_code, signed, proof) ==
    [raises |-> FALSE, error |-> PlainError, signed |-> signed,
     status_code |-> status_code, proof |-> proof]

PaidRaise(error, signed) ==
    [raises |-> TRUE, error |-> error, signed |-> signed, status_code |-> 0,
     proof |-> "absent"]

PaidOutcomes ==
    {PaidResponse(200, -1, "absent"),
     PaidResponse(200, 10000, "b64json"),
     PaidResponse(200, 2000000, "garbage"),
     PaidResponse(201, 10000, "b64json"),
     PaidResponse(402, 10000, "absent"),
     PaidResponse(402, -1, "garbage"),
     PaidResponse(500, 2000000, "b64json"),
     PaidRaise(TransportError, -1),
     PaidRaise(PlainError, 10000)}

Configs ==
    [allow_dynamic_service_registration : BOOLEAN,
     max_payment_usdc : {100 * k : k \in 1..MaxPaymentUsdc},
     registered_facilitators : {[name \in {"custom"} |-> "https://facilitator.example"]},
     registered_services : {{}, {ServiceUrl}}]

(***************************************************************************)
(* The provider as a state machine: one tool call at a time                *)
(***************************************************************************)
NoCall ==
    [action |-> "", url |-> << >>, method |-> "", wallet_provider |-> EvmBaseWallet,
     selected_payment_option |-> NoOption, r1 |-> NoResponse, r2 |-> NoResponse,
     paid |-> NoPaid]

NoParts == [scheme |-> << >>, userinfo |-> << >>, host |-> << >>, port |-> << >>,
            path |-> << >>]

\* what one requests.get of a discovery page comes back with: an OK response
\* carrying n resources and pagination.total = total (0 when the body names
\* none), an OK response whose body cannot be used, or a failure
OkReply(n, total) == [kind |-> "ok", n |-> n, total |-> total]
UnusableReply == [kind |-> "unusable", n |-> 0, total |-> 0]
FailReply(kind) == [kind |-> kind, n |-> 0, total |-> 0]
NoReply == FailReply("none")

\* the locals of fetch_all_discovery_resources (lines 123-126) and of the
\* _fetch_with_retry call in progress, the reply to the last GET, and the reply
\* that ended each page request so far
NoFetch ==
    [pc |-> "idle", all_resources |-> << >>, offset |-> 0, page_number |-> 1,
     known_total |-> 0, attempt |-> 0, gets |-> 0, sleeps |-> << >>,
     last |-> NoReply, pages |-> << >>]

\* __init__, lines 58-85
InitProvider ==
    /\ config \in Configs
    /\ registered_services = config.registered_services
    /\ surfaced = {}
    /\ pc = "idle"
    /\ call = NoCall
    /\ result = NoResult
    /\ http_log = << >>
    /\ signer = NoSigner
    /\ url_parts = NoParts
    /\ allowed = FALSE
    /\ fetch = NoFetch
    /\ wallet_log = << >>
    /\ approvals = {}

Init == InitProvider

\* a provider that remembers every URL it is called with
Return_registering_url(c, outcome, services) ==
    /\ pc' = "returned"
    /\ call' = c
    /\ result' = outcome.result
    /\ http_log' = outcome.http
    /\ signer' = outcome.signer
    /\ surfaced' = surfaced \cup outcome.surfaced
    /\ registered_services' = services \cup {c.url}
    /\ UNCHANGED <<config, url_parts, allowed, fetch, wallet_log, approvals>>

\* an invocation returns its outcome to the caller
Return(c, outcome, services) ==
    /\ pc' = "returned"
    /\ call' = c
    /\ result' = outcome.result
    /\ http_log' = outcome.http
    /\ signer' = outcome.signer
    /\ surfaced' = surfaced \cup outcome.surfaced
    /\ registered_services' = services
    /\ UNCHANGED <<config, url_parts, allowed, fetch, wallet_log, approvals>>

make_http_request(wallet_provider, url, method, r1, r2) ==
    /\ pc = "idle"
    /\ Return([NoCall EXCEPT !.action = "make_http_request", !.url = url,
                             !.method = method, !.wallet_provider = wallet_provider,
                             !.r1 = r1, !.r2 = r2],
              make_http_request_outcome(registered_services, wallet_provider, url,
                                        method, r1, r2),
              registered_services)

retry_with_x402(wallet_provider, url, method, selected_payment_option, paid) ==
    /\ pc = "idle"
    /\ Return([NoCall EXCEPT !.action = "retry_http_request_with_x402", !.url = url,
                             !.method = method, !.wallet_provider = wallet_provider,
                             !.selected_payment_option = selected_payment_option,
                             !.paid = paid],
              retry_with_x402_outcome(registered_services, config, wallet_provider,
                                      url, method, selected_payment_option, paid),
              registered_services)

make_http_request_with_x402(wallet_provider, url, method, paid) ==
    /\ pc = "idle"
    /\ Return([NoCall EXCEPT !.action = "make_http_request_with_x402", !.url = url,
                             !.method = method, !.wallet_provider = wallet_provider,
                             !.paid = paid],
              make_http_request_with_x402_outcome(registered_services, config,
                                                  wallet_provider, url, method, paid),
              registered_services)

register_service(url) ==
    /\ pc = "idle"
    /\ Return([NoCall EXCEPT !.action = "register_x402_service", !.url = url],
              Outcome(register_service_result(registered_services, config, url),
                      << >>, NoSigner, {}),
              register_service_services(registered_services, config, url))

\* the agent loop takes the result and is ready for the next tool call
agent_loop ==
    /\ pc = "returned"
    /\ pc' = "idle"
    /\ call' = NoCall
    /\ result' = NoResult
    /\ http_log' = << >>
    /\ signer' = NoSigner
    /\ url_parts' = NoParts
    /\ allowed' = FALSE
    /\ fetch' = NoFetch
    /\ wallet_log' = << >>
    /\ UNCHANGED <<registered_services, config, surfaced, approvals>>

\* the environment of a call: the server is consulted only as far as the call gets
FirstResponses(url, domain) ==
    IF is_url_allowed(url, registered_services) THEN domain ELSE {NoResponse}

SecondResponses(method, r1, domain) ==
    IF ~r1.raises /\ retries_on(method, r1) THEN domain ELSE {NoResponse}

PaidFor(rejected) == IF rejected THEN {NoPaid} ELSE PaidOutcomes

Next ==
    \/ /\ pc = "idle"
       /\ \E w \in Wallets, url \in Urls, method \in SomeMethods :
            \E r1 \in FirstResponses(url, Responses) :
              \E r2 \in SecondResponses(method, r1, Responses) :
                make_http_request(w, url, method, r1, r2)
    \/ /\ pc = "idle"
       /\ \E w \in Wallets, url \in Urls, method \in SomeMethods,
             opt \in SelectableOptions :
            \E paid \in PaidFor(retry_rejection(registered_services, config, w, url,
                                                opt) # "") :
              retry_with_x402(w, url, method, opt, paid)
    \/ /\ pc = "idle"
       /\ \E w \in Wallets, url \in Urls, method \in SomeMethods :
            \E paid \in PaidFor(~is_url_allowed(url, registered_services)
                                \/ ~w.is_evm_provider) :
              make_http_request_with_x402(w, url, method, paid)
    \/ /\ pc = "idle"
       /\ \E url \in Urls : register_service(url)
    \/ agent_loop

Spec == Init /\ [][Next]_vars

(***************************************************************************)
(* SpecChallenge: make_http_request against every short 402 response       *)
(***************************************************************************)
ChallengeConfig ==
    [allow_dynamic_service_registration |-> FALSE, max_payment_usdc |-> 100,
     registered_facilitators |-> [name \in {"custom"} |-> "https://facilitator.example"],
     registered_services |-> {ServiceUrl}]

InitChallenge ==
    /\ config = ChallengeConfig
    /\ registered_services = config.registered_services
    /\ surfaced = {}
    /\ pc = "idle"
    /\ call = NoCall
    /\ result = NoResult
    /\ http_log = << >>
    /\ signer = NoSigner
    /\ url_parts = NoParts
    /\ allowed = FALSE
    /\ fetch = NoFetch
    /\ wallet_log = << >>
    /\ approvals = {}

\* the agent loop of SpecChallenge also forgets the surfaced options: every
\* call is looked at on its own
agent_loop_fresh ==
    /\ pc = "returned"
    /\ pc' = "idle"
    /\ call' = NoCall
    /\ result' = NoResult
    /\ http_log' = << >>
    /\ signer' = NoSigner
    /\ surfaced' = {}
    /\ UNCHANGED <<registered_services, config, url_parts, allowed, fetch, wallet_log, approvals>>

\* the first response ranges over ChallengeResponses, the response to a retried
\* request over Responses
NextChallenge ==
    \/ /\ pc = "idle"
       /\ \E w \in Wallets, url \in {ServicePathUrl, EvilUrl}, method \in Methods :
            \E r1 \in FirstResponses(url, ChallengeResponses) :
              \E r2 \in SecondResponses(method, r1, Responses) :
                make_http_request(w, url, method, r1, r2)
    \/ agent_loop_fresh

SpecChallenge == InitChallenge /\ [][NextChallenge]_vars

(***************************************************************************)
(* SpecUrl: is_url_allowed on URLs rendered from their components          *)
(***************************************************************************)
UrlParts ==
    [scheme : {<<"h">>, <<"H">>, <<"h", "t", "t", "p", "s">>},
     userinfo : {<< >>, <<"u">>},
     host : {<<"a">>, <<"a", "b">>, <<"e">>, <<"a", "p", "i", ".", "e", "x", "a", "m", "p", "l", "e", ".", "c", "o", "m">>, <<"e", "v", "i", "l", ".", "c", "o", "m">>},
     port : {<< >>, <<"8">>},
     path : {<< >>, <<"/", "x">>, <<"/", "v", "1", "/", "x">>}]

RenderUrl(p) ==
    p.scheme \o <<":", "/", "/">>
    \o (IF p.userinfo = << >> THEN << >> ELSE p.userinfo \o <<"@">>)
    \o p.host
    \o (IF p.port = << >> THEN << >> ELSE <<":">> \o p.port)
    \o p.path

RegistryEntries ==
    {<<"h", ":", "/", "/", "a">>,
     <<"h", ":", "/", "/", "a", "/", "x">>,
     <<"h", ":", "/", "/", "a", ":", "8">>,
     <<"h", ":", "/", "/", "e", ":", "8">>,
     <<"h", "t", "t", "p", "s", ":", "/", "/", "a", "p", "i", ".", "e", "x", "a", "m", "p", "l", "e", ".", "c", "o", "m">>}

InitUrl ==
    /\ registered_services \in
           {r \in SUBSET RegistryEntries : Cardinality(r) <= MaxRegistry}
    /\ config = [ChallengeConfig EXCEPT !.registered_services = registered_services]
    /\ surfaced = {}
    /\ pc = "idle"
    /\ call = NoCall
    /\ result = NoResult
    /\ http_log = << >>
    /\ signer = NoSigner
    /\ url_parts = NoParts
    /\ allowed = FALSE
    /\ fetch = NoFetch
    /\ wallet_log = << >>
    /\ approvals = {}

\* one evaluation of is_url_allowed(url, self._registered_services)
check_url(parts) ==
    /\ pc = "idle"
    /\ pc' = "returned"
    /\ url_parts' = parts
    /\ allowed' = is_url_allowed(RenderUrl(parts), registered_services)
    /\ call' = [NoCall EXCEPT !.action = "is_url_allowed", !.url = RenderUrl(parts)]
    /\ UNCHANGED <<registered_services, config, surfaced, result, http_log, signer, fetch, wallet_log, approvals>>

NextUrl ==
    \/ \E parts \in UrlParts : check_url(parts)
    \/ agent_loop

SpecUrl == InitUrl /\ [][NextUrl]_vars

(***************************************************************************)
(* SpecErrors: the actions against requests that raise                     *)
(***************************************************************************)
Errors ==
    {PlainError, TransportError, ResponseError("object"), ResponseError("other"),
     ResponseError("none")}

ErrorResponses ==
    {RaisedResponse(e) : e \in Errors}
    \cup {Response(404, NoHeader, NoBody), Response(402, UndecodableHeader, NoBody)}

PaidErrors == {PaidRaise(e, signed) : e \in Errors, signed \in {-1, 10000}}

NextErrors ==
    \/ /\ pc = "idle"
       /\ \E w \in Wallets, url \in Urls, method \in Methods :
            \E r1 \in FirstResponses(url, ErrorResponses) :
              \E r2 \in SecondResponses(method, r1, ErrorResponses) :
                make_http_request(w, url, method, r1, r2)
    \/ /\ pc = "idle"
       /\ \E w \in Wallets, url \in Urls, method \in SomeMethods,
               opt \in {PaymentOptionSchema(OptMatch), PaymentOptionSchema(OptPrice)} :
            \E paid \in IF retry_rejection(registered_services, config, w, url, opt) # ""
                         THEN {NoPaid} ELSE PaidErrors :
              retry_with_x402(w, url, method, opt, paid)
    \/ /\ pc = "idle"
       /\ \E w \in Wallets, url \in Urls, method \in SomeMethods :
            \E paid \in IF ~is_url_allowed(url, registered_services) \/ ~w.is_evm_provider
                         THEN {NoPaid} ELSE PaidErrors :
              make_http_request_with_x402(w, url, method, paid)
    \/ /\ pc = "idle"
       /\ \E url \in Urls : register_service(url)
    \/ agent_loop_fresh

SpecErrors == InitProvider /\ [][NextErrors]_vars

(***************************************************************************)
(* SpecPages: discover_x402_services, one GET of the discovery API at a    *)
(* time                                                                    *)
(***************************************************************************)
max_retries == 3
initial_delay_ms == 1000

\* page_size, and the largest pagination.total the discovery API reports
PageSize == 2
MaxTotal == 5

\* the resources of a page, named by their position in the API's collection
PageResources(offset, n) == [i \in 1..n |-> offset + i]

PageReplies ==
    {OkReply(n, total) : n \in 0..PageSize, total \in 0..MaxTotal}
    \cup {UnusableReply, FailReply("status"), FailReply("network")}

\* a retry loop that waits the same delay before every retry
fetch_with_retry_flat(f, reply) ==
    LET attempt == IF f.pc = "retrying" THEN f.attempt ELSE 0
        gets == IF f.pc = "retrying" THEN f.gets ELSE 0
        sleeps == IF f.pc = "retrying" THEN f.sleeps ELSE << >>
    IN  IF reply.kind \in {"ok", "unusable"}
        THEN [f EXCEPT !.pc = "response", !.attempt = attempt, !.gets = gets + 1,
                       !.sleeps = sleeps, !.last = reply]
        ELSE IF attempt >= max_retries
        THEN [f EXCEPT !.pc = "RuntimeError", !.attempt = attempt,
                       !.gets = gets + 1, !.sleeps = sleeps, !.last = reply]
        ELSE [f EXCEPT !.pc = "retrying", !.attempt = attempt + 1,
                       !.gets = gets + 1,
                       !.sleeps = Append(sleeps, initial_delay_ms),
                       !.last = reply]

\* _fetch_with_retry, one pass of its loop (lines 87-104): the GET and, when it
\* failed, the sleep before the next attempt or the RuntimeError after the last
fetch_with_retry(f, reply) ==
    LET attempt == IF f.pc = "retrying" THEN f.attempt ELSE 0
        gets == IF f.pc = "retrying" THEN f.gets ELSE 0
        sleeps == IF f.pc = "retrying" THEN f.sleeps ELSE << >>
    IN  IF reply.kind \in {"ok", "unusable"}
        THEN [f EXCEPT !.pc = "response", !.attempt = attempt, !.gets = gets + 1,
                       !.sleeps = sleeps, !.last = reply]
        ELSE IF attempt >= max_retries
        THEN [f EXCEPT !.pc = "RuntimeError", !.attempt = attempt,
                       !.gets = gets + 1, !.sleeps = sleeps, !.last = reply]
        ELSE [f EXCEPT !.pc = "retrying", !.attempt = attempt + 1,
                       !.gets = gets + 1,
                       !.sleeps = Append(sleeps, initial_delay_ms * (2 ^ attempt)),
                       !.last = reply]

\* a skip that ends the loop whenever a page fails
page_failed_aborts(f) ==
    [f EXCEPT !.offset = @ + PageSize, !.page_number = @ + 1, !.pc = "done"]

\* lines 134-148: the page is skipped
page_failed(f) ==
    LET offset == f.offset + PageSize
    IN  [f EXCEPT !.offset = offset,
                  !.page_number = @ + 1,
                  !.pc = IF f.known_total > 0 /\ offset >= f.known_total THEN "done"
                         ELSE IF f.known_total = 0 THEN "done"
                         ELSE "fetching"]

\* a total that is taken over from every response
updated_total_always(known_total, total) == total

\* line 155: if total > 0: known_total = total
updated_total(known_total, total) == IF total > 0 THEN total ELSE known_total

\* a stop test that asks for one page more when the offset has just reached the total
page_ends_loop_past(n, offset, known_total) == n = 0 \/ offset > known_total

\* line 164: if len(resources) == 0 or offset >= known_total: break
page_ends_loop(n, offset, known_total) == n = 0 \/ offset >= known_total

\* lines 150-168: the page is read and added
page_fetched(f) ==
    IF f.last.kind = "unusable"
    THEN [f EXCEPT !.pc = "raised"]
    ELSE LET known_total == updated_total(f.known_total, f.last.total)
             offset == f.offset + f.last.n
         IN  [f EXCEPT !.known_total = known_total,
                       !.all_resources = @ \o PageResources(f.offset, f.last.n),
                       !.offset = offset,
                       !.page_number = @ + 1,
                       !.pc = IF page_ends_loop(f.last.n, offset, known_total)
                              THEN "done" ELSE "fetching"]

\* fetch_all_discovery_resources, from one GET to the next (lines 128-168)
fetch_all_discovery_resources(f, reply) ==
    LET g == fetch_with_retry(f, reply)
    IN  IF g.pc = "RuntimeError" THEN page_failed(g)
        ELSE IF g.pc = "response" THEN page_fetched(g)
        ELSE g

\* discover_x402_services up to its first GET (lines 103-124)
discover_x402_services(wallet_provider) ==
    /\ pc = "idle"
    /\ pc' = "discovering"
    /\ fetch' = [NoFetch EXCEPT !.pc = "fetching"]
    /\ call' = [NoCall EXCEPT !.action = "discover_x402_services",
                              !.wallet_provider = wallet_provider]
    /\ UNCHANGED <<registered_services, config, surfaced, result, http_log, signer,
                   url_parts, allowed, wallet_log, approvals>>

\* one requests.get of the discovery API and what the paginator does with it
requests_get(reply) ==
    /\ pc = "discovering"
    /\ fetch.pc \in {"fetching", "retrying"}
    /\ LET f == fetch_all_discovery_resources(fetch, reply)
       IN  fetch' = [f EXCEPT !.pages = IF f.pc = "retrying" THEN @
                                         ELSE Append(@, reply)]
    /\ UNCHANGED <<registered_services, config, surfaced, pc, call, result,
                   http_log, signer, url_parts, allowed, wallet_log, approvals>>

\* lines 126-185: the result of the discovery call
discover_result(f) ==
    IF f.pc = "raised"
    THEN ErrorResult("Failed to list x402 services")
    ELSE IF Len(f.all_resources) = 0
    THEN ErrorResult("No services found")
    ELSE [NoResult EXCEPT !.success = "true", !.total = Len(f.all_resources)]

discover_x402_services_returns ==
    /\ pc = "discovering"
    /\ fetch.pc \in {"done", "raised"}
    /\ pc' = "returned"
    /\ result' = discover_result(fetch)
    /\ UNCHANGED <<registered_services, config, surfaced, call, http_log, signer,
                   url_parts, allowed, fetch, wallet_log, approvals>>

\* the agent loop takes the result; the paginator's last state stays readable
\* until the next discovery call starts
discovery_taken ==
    /\ pc = "returned"
    /\ pc' = "idle"
    /\ call' = NoCall
    /\ result' = NoResult
    /\ UNCHANGED <<registered_services, config, surfaced, http_log, signer,
                   url_parts, allowed, fetch, wallet_log, approvals>>

NextPages ==
    \/ \E w \in Wallets : discover_x402_services(w)
    \/ \E reply \in PageReplies : requests_get(reply)
    \/ discover_x402_services_returns
    \/ discovery_taken

SpecPages == InitChallenge /\ [][NextPages]_vars

(***************************************************************************)
(* The two tests an option goes through, on their own: every wallet of the *)
(* mapping against every spelling of the addresses and of the identifiers. *)
(***************************************************************************)
\* a wallet on each network of the mapping
MappedWallets ==
    Wallets \cup {[protocol_family |-> "svm", network_id |-> "solana-devnet",
                   is_evm_provider |-> FALSE]}

\* str.upper(), to spell an address in capitals
Upper(s) ==
    [i \in DOMAIN s |->
        IF s[i] \in Range(LowerChars)
        THEN UpperChars[CHOOSE k \in DOMAIN LowerChars : LowerChars[k] = s[i]]
        ELSE s[i]]

\* the asset field of an option: each USDC address as the table has it, in small
\* letters and in capitals, another token, and the empty string of a missing field
Assets ==
    UNION {{a, Lower(a), Upper(a)} :
             a \in {UsdcBaseMainnet, UsdcBaseSepolia, UsdcSolanaMainnet, UsdcSolanaDevnet}}
      \cup {OtherToken, << >>}

\* retry_with_x402, "Check that payment option is USDC"
check_usdc(wallet_provider, asset) ==
    /\ pc' = "returned"
    /\ call' = [action |-> "is_usdc_asset", wallet_provider |-> wallet_provider,
                asset |-> asset]
    /\ allowed' = is_usdc_asset(asset, wallet_provider)
    /\ UNCHANGED <<registered_services, config, surfaced, result, http_log, signer,
                   url_parts, fetch, wallet_log, approvals>>

\* retry_with_x402, "Check network compatibility before attempting payment"
check_network(wallet_provider, selected_network) ==
    LET wallet_networks == get_x402_networks(wallet_provider)
    IN  /\ pc' = "returned"
        /\ call' = [action |-> "get_x402_networks", wallet_provider |-> wallet_provider,
                    selected_network |-> selected_network,
                    wallet_networks |-> wallet_networks]
        /\ allowed' = InSeq(selected_network, wallet_networks)
        /\ UNCHANGED <<registered_services, config, surfaced, result, http_log, signer,
                       url_parts, fetch, wallet_log, approvals>>

\* supports_network, lines 834-853; the ids of SUPPORTED_NETWORKS that start with
\* "base-" and those that start with "solana-"
supports_network(network) ==
    IF network.network_id \notin NetworkIds THEN FALSE
    ELSE IF network.network_id \in {"base-mainnet", "base-sepolia"}
    THEN network.protocol_family = "evm"
    ELSE IF network.network_id \in {"solana-mainnet", "solana-devnet"}
    THEN network.protocol_family = "solana"
    ELSE FALSE

\* the provider is offered to the wallet's network (supports_network) and, on a
\* retry, tests the asset of the selected option (lines 411-413)
check_support(wallet_provider, asset) ==
    /\ pc' = "returned"
    /\ call' = [action |-> "supports_network", wallet_provider |-> wallet_provider,
                asset |-> asset, supported |-> supports_network(wallet_provider)]
    /\ allowed' = is_usdc_asset(asset, wallet_provider)
    /\ UNCHANGED <<registered_services, config, surfaced, result, http_log, signer,
                   url_parts, fetch, wallet_log, approvals>>

\* the network field of an option: every identifier of the mapping, the agentkit
\* network ids, a chain outside the mapping, and the empty string of a missing field
NextOption ==
    \/ /\ pc = "idle"
       /\ \E w \in MappedWallets, asset \in Assets : check_usdc(w, asset)
    \/ /\ pc = "idle"
       /\ \E w \in MappedWallets,
             network \in UNION {Range(NETWORK_MAPPINGS[n]) : n \in NetworkIds}
                            \cup NetworkIds \cup {"eip155:1", ""} :
            check_network(w, network)
    \* every network under every protocol family a wallet may report
    \/ /\ pc = "idle"
       /\ \E w \in [protocol_family : {"evm", "svm", "solana"},
                    network_id : NetworkIds \cup {"ethereum-mainnet"},
                    is_evm_provider : BOOLEAN],
             asset \in Assets :
            /\ w.is_evm_provider => w.protocol_family = "evm"
            /\ check_support(w, asset)
    \/ agent_loop

SpecOption == InitProvider /\ [][NextOption]_vars

(***************************************************************************)
(* The unit conversions and the limit test, on their own                   *)
(***************************************************************************)
\* the atomic amounts formatted and parsed back: 0..MaxAtomic
MaxAtomic == 60

\* _format_units(value, decimals): the decimal string of value / 10^decimals,
\* trailing zeros of the fraction dropped
_format_units(value, decimals) ==
    LET divisor == Pow10(decimals)
        whole == value \div divisor
        remainder == value % divisor
        digits == IntToStr(remainder)
        zfill == [i \in 1..decimals |->
                    IF i <= decimals - Len(digits) THEN "0"
                    ELSE digits[i - (decimals - Len(digits))]]
        kept == CHOOSE k \in 1..decimals :
                    zfill[k] # "0" /\ \A j \in (k + 1)..decimals : zfill[j] = "0"
    IN  IF decimals = 0 THEN IntToStr(value)
        ELSE IF remainder = 0 THEN IntToStr(whole)
        ELSE IntToStr(whole) \o <<".">> \o SubSeq(zfill, 1, kept)

\* _parse_units(value, decimals) == str(int(value * 10**decimals))
_parse_units(value, decimals) ==
    IntToStr(int_of_float_product(value.n, value.scale, decimals))

\* retry_with_x402: validation = validate_payment_limit(payment_amount, max_payment_usdc);
\* the call keeps what the test before it was given and answered
check_limit(amount_atomic, max_payment_usdc) ==
    /\ pc' = "returned"
    /\ call' = [action |-> "validate_payment_limit", amount_atomic |-> amount_atomic,
                max_payment_usdc |-> max_payment_usdc,
                before |-> IF call.action = "validate_payment_limit"
                           THEN <<call.amount_atomic, call.max_payment_usdc, allowed>>
                           ELSE << >>]
    /\ allowed' = validate_payment_limit(amount_atomic, max_payment_usdc)
    /\ UNCHANGED <<registered_services, config, surfaced, result, http_log, signer,
                   url_parts, fetch, wallet_log, approvals>>

\* an amount formatted for display and read back as units
format_and_parse(value, decimals) ==
    LET formatted == _format_units(value, decimals)
        \* float(formatted): the numeral the decimal string reads as
        point == FindAny(formatted, {"."}, 1)
        float == IF point = 0 THEN [n |-> DigitsValue(formatted), scale |-> 0]
                 ELSE [n |-> DigitsValue(SubSeq(formatted, 1, point - 1)
                                         \o SubSeq(formatted, point + 1, Len(formatted))),
                       scale |-> Len(formatted) - point]
    IN  /\ pc' = "returned"
        /\ call' = [action |-> "_format_units", value |-> value, decimals |-> decimals,
                    formatted |-> formatted,
                    parsed |-> _parse_units(float, decimals)]
        /\ allowed' = FALSE
        /\ UNCHANGED <<registered_services, config, surfaced, result, http_log, signer,
                       url_parts, fetch, wallet_log, approvals>>

\* the limit test is applied once, or twice in a row so that two of its answers
\* can be compared
\* with whole and fractional ceilings (1.0, 2.0, 2.01, 2.02) and the amounts at and
\* around each
NextUnits ==
    \/ /\ \/ pc = "idle"
          \/ pc = "returned" /\ call.action = "validate_payment_limit" /\ call.before = << >>
       /\ LET ceilings == {100, 200, 201, 202}
          IN  \E m \in ceilings, at \in ceilings, d \in {-1, 0, 1} :
                check_limit(IntToStr(at * 10000 + d), m)
    \/ /\ pc = "idle"
       /\ \E value \in 0..MaxAtomic, decimals \in 0..2 : format_and_parse(value, decimals)
    \/ agent_loop_fresh

SpecUnits == InitChallenge /\ [][NextUnits]_vars

(***************************************************************************)
(* register_x402_service against well and badly formed URLs                *)
(***************************************************************************)
\* the URLs: with and without a path, without a scheme, with a network location
\* that holds no host (a port alone, a user alone), with an unbalanced bracket,
\* with a scheme alone, and the empty string
NextRegister ==
    \/ /\ pc = "idle"
       /\ \E url \in Urls \cup {<<"h", ":", "/", "/", ":", "8">>,
                                <<"h", ":", "/", "/", "u", "@", "/", "x">>,
                                <<"/", "/", "a">>, <<"h", ":", "/", "/", "[", "a">>,
                                <<"h", ":">>, << >>} :
            register_service(url)
    \/ agent_loop_fresh

SpecRegister == InitProvider /\ [][NextRegister]_vars

(***************************************************************************)
(* aave_action_provider.py: supply and borrow                              *)
(*                                                                         *)
(* env is what the chain, the wallet and the argument schema answer during *)
(* one invocation; wallet_log is every send_transaction and                *)
(* wait_for_transaction_receipt call the invocation made, in order.        *)
(***************************************************************************)
\* the largest token balance and atomic amount of a supply
MaxBalance == 2

\* line 149: if wallet_balance < amount_atomic
insufficient_balance_never(wallet_balance, amount_atomic) == FALSE

insufficient_balance(wallet_balance, amount_atomic) == wallet_balance < amount_atomic

WalletCall(op, tx, raised) == [op |-> op, tx |-> tx, raised |-> raised]

\* an approval that does not wait for its receipt
approve_token_unawaited(env) ==
    <<WalletCall("send_transaction", "approve", env.approve = "send_raises")>>

\* utils.py approve_token: send the approval, wait for its receipt; the wallet
\* calls made, the last of them the one that raised if one did.  The receipt is
\* not looked at: one that reports status 0 ("reverted") is taken as any other.
approve_token(env) ==
    IF env.approve = "send_raises"
    THEN <<WalletCall("send_transaction", "approve", TRUE)>>
    ELSE <<WalletCall("send_transaction", "approve", FALSE),
           WalletCall("wait_for_transaction_receipt", "approve", env.approve = "wait_raises")>>

\* supply, lines 120-221: the message returned and the wallet calls made
supply_outcome(env) ==
    LET approval == approve_token(env)
        sending == IF env.supply = "send_raises"
                   THEN <<WalletCall("send_transaction", "supply", TRUE)>>
                   ELSE <<WalletCall("send_transaction", "supply", FALSE),
                          WalletCall("wait_for_transaction_receipt", "supply",
                                     env.supply = "wait_raises")>>
        Out(message, log) == [message |-> message, log |-> log]
    IN  IF ~env.args_valid THEN Out("Error supplying to Aave", << >>)
        ELSE IF ~env.network_supported THEN Out("is not supported by Aave", << >>)
        ELSE IF env.pool = "raises" THEN Out("Could not get Aave Pool address", << >>)
        ELSE IF env.asset = "ValueError" THEN Out("Asset not supported", << >>)
        ELSE IF env.asset = "raises" THEN Out("Could not get asset address", << >>)
        ELSE IF env.token_info = "raises" THEN Out("Could not get token information", << >>)
        ELSE IF env.balance_raises THEN Out("Could not check balance", << >>)
        ELSE IF insufficient_balance(env.wallet_balance, env.amount_atomic)
        THEN Out("Insufficient balance", << >>)
        \* get_health_factor: a failure is replaced by Decimal("Infinity")
        ELSE IF approval[Len(approval)].raised
        THEN Out("Error approving token for Aave", approval)
        ELSE IF env.encode_raises THEN Out("Error supplying to Aave", approval)
        ELSE IF env.supply \in {"send_raises", "wait_raises"}
        THEN Out(IF env.error_text \in {"not deployed", "call contract function"}
                 THEN "This token may not be properly supported by Aave"
                 ELSE "Error executing supply transaction",
                 approval \o sending)
        \* lines 188-189: the receipt of the supply is not looked at either.
        \* the second get_health_factor falls back as well; get_token_symbol does not
        ELSE IF env.symbol = "raises"
        THEN Out("Error supplying to Aave", approval \o sending)
        ELSE Out("Successfully supplied", approval \o sending)

supply(env) ==
    /\ pc = "idle"
    /\ pc' = "returned"
    /\ call' = [action |-> "supply", env |-> env]
    /\ result' = [message |-> supply_outcome(env).message]
    /\ wallet_log' = supply_outcome(env).log
    /\ UNCHANGED <<registered_services, config, surfaced, http_log, signer, url_parts,
                   allowed, fetch, approvals>>

\* the largest amount of a borrow, in whole tokens
MaxBorrow == 2

\* borrow, lines 389-397: Decimal(amount) * asset_price * Decimal(10 ** (8 - decimals)),
\* asset_price being the oracle's answer divided by 10^8 (utils.py 398).  The
\* product is amount * oracle_price / 10^decimals; the prices of the model are
\* multiples of 10^decimals, so the division is exact.
estimated_borrow_base_units(amount, oracle_price, decimals) ==
    (amount * oracle_price) \div Pow10(decimals)

\* borrow, lines 372-469: the message returned and the wallet calls made
borrow_outcome(env) ==
    LET Out(message, log) == [message |-> message, log |-> log]
        price_failed == IF env.available_borrows_base = 0
                        THEN Out("You have no borrowing capacity available", << >>)
                        ELSE Out("Error getting asset price", << >>)
        sending == IF env.borrow = "send_raises"
                   THEN <<WalletCall("send_transaction", "borrow", TRUE)>>
                   ELSE <<WalletCall("send_transaction", "borrow", FALSE),
                          WalletCall("wait_for_transaction_receipt", "borrow",
                                     env.borrow = "wait_raises")>>
    IN  IF ~env.args_valid \/ env.token_info = "raises"
        THEN Out("Error borrowing from Aave", << >>)
        ELSE IF env.account_data = "raises" THEN Out("Error checking account data", << >>)
        ELSE IF env.total_collateral_base = 0 THEN Out("You have no collateral supplied", << >>)
        ELSE IF env.oracle = "raises" THEN price_failed
        ELSE IF estimated_borrow_base_units(env.amount, env.oracle_price, env.decimals)
                    > env.available_borrows_base
        THEN IF env.symbol = "raises" THEN price_failed
             ELSE Out("Insufficient borrowing capacity", << >>)
        ELSE IF env.borrow \in {"send_raises", "wait_raises"}
        THEN Out("Error executing borrow transaction", sending)
        ELSE IF env.borrow = "reverted" THEN Out("Transaction failed", sending)
        ELSE IF env.symbol = "raises" THEN Out("Error borrowing from Aave", sending)
        ELSE Out("Successfully borrowed", sending)

borrow(env) ==
    /\ pc = "idle"
    /\ pc' = "returned"
    /\ call' = [action |-> "borrow", env |-> env]
    /\ result' = [message |-> borrow_outcome(env).message]
    /\ wallet_log' = borrow_outcome(env).log
    /\ UNCHANGED <<registered_services, config, surfaced, http_log, signer, url_parts,
                   allowed, fetch, approvals>>

\* tx_hash = wallet.send_transaction(params); wallet.wait_for_transaction_receipt(tx_hash):
\* the wallet calls made, the last of them the one that raised if one did
send_and_wait(tx, outcome) ==
    IF outcome = "send_raises"
    THEN <<WalletCall("send_transaction", tx, TRUE)>>
    ELSE <<WalletCall("send_transaction", tx, FALSE),
           WalletCall("wait_for_transaction_receipt", tx, outcome = "wait_raises")>>

\* a withdraw that does not look at the account's debt
withdraw_outcome_ignoring_debt(env) ==
    IF ~env.args_valid \/ env.token_info = "raises"
    THEN [message |-> "Error withdrawing from Aave", log |-> << >>]
    ELSE IF env.account_data = "raises"
    THEN [message |-> "Error checking account data", log |-> << >>]
    ELSE [message |-> "Successfully withdrew", log |-> send_and_wait("withdraw", "ok")]

\* withdraw, lines 255-331: the message returned and the wallet calls made
withdraw_outcome(env) ==
    LET Out(message, log) == [message |-> message, log |-> log]
        sending == send_and_wait("withdraw", env.withdraw)
    IN  IF ~env.args_valid \/ env.token_info = "raises"
        THEN Out("Error withdrawing from Aave", << >>)
        \* get_health_factor and get_user_account_data share the try of 265-275
        ELSE IF env.account_data = "raises" THEN Out("Error checking account data", << >>)
        ELSE IF env.total_debt_base > 0 /\ env.amount = "max"
        THEN Out("You have active borrows", << >>)
        ELSE IF env.encode_raises THEN Out("Error withdrawing from Aave", << >>)
        ELSE IF env.withdraw \in {"send_raises", "wait_raises"}
        THEN Out("Error executing withdraw transaction", sending)
        ELSE IF env.withdraw = "reverted" THEN Out("Transaction failed", sending)
        ELSE IF env.symbol = "raises" THEN Out("Error withdrawing from Aave", sending)
        ELSE Out("Successfully withdrew", sending)

withdraw(env) ==
    /\ pc = "idle"
    /\ pc' = "returned"
    /\ call' = [action |-> "withdraw", env |-> env]
    /\ result' = [message |-> withdraw_outcome(env).message]
    /\ wallet_log' = withdraw_outcome(env).log
    /\ UNCHANGED <<registered_services, config, surfaced, http_log, signer, url_parts,
                   allowed, fetch, approvals>>

\* repay, lines 503-588: the message returned and the wallet calls made
repay_outcome(env) ==
    LET Out(message, log) == [message |-> message, log |-> log]
        approval == approve_token(env)
        sending == send_and_wait("repay", env.repay)
    IN  IF ~env.args_valid \/ env.token_info = "raises"
        THEN Out("Error repaying to Aave", << >>)
        \* 512-516: the balance is read outside every inner try, and not for "max"
        ELSE IF env.amount # "max" /\ env.balance_raises
        THEN Out("Error repaying to Aave", << >>)
        ELSE IF env.amount # "max" /\ insufficient_balance(env.wallet_balance, env.amount_atomic)
        THEN Out("Insufficient balance", << >>)
        ELSE IF approval[Len(approval)].raised THEN Out("Error approving token", approval)
        ELSE IF env.encode_raises THEN Out("Error repaying to Aave", approval)
        ELSE IF env.repay \in {"send_raises", "wait_raises"}
        THEN Out("Error executing repay transaction", approval \o sending)
        ELSE IF env.repay = "reverted" THEN Out("Transaction failed", approval \o sending)
        ELSE IF env.symbol = "raises" THEN Out("Error repaying to Aave", approval \o sending)
        ELSE Out("Successfully repaid", approval \o sending)

repay(env) ==
    /\ pc = "idle"
    /\ pc' = "returned"
    /\ call' = [action |-> "repay", env |-> env]
    /\ result' = [message |-> repay_outcome(env).message]
    /\ wallet_log' = repay_outcome(env).log
    /\ UNCHANGED <<registered_services, config, surfaced, http_log, signer, url_parts,
                   allowed, fetch, approvals>>

\* set_collateral, lines 644-709, with utils.py set_user_use_reserve_as_collateral
\* (338-367), whose receipt is not looked at
set_collateral_outcome(env) ==
    LET Out(message, log) == [message |-> message, log |-> log]
        sending == send_and_wait("set_collateral", env.set_collateral)
    IN  IF ~env.args_valid \/ env.asset = "raises"
        THEN Out("Error setting collateral in Aave", << >>)
        \* encode_abi is inside set_user_use_reserve_as_collateral, so inside the try
        ELSE IF env.encode_raises THEN Out("Error setting asset as collateral", << >>)
        ELSE IF env.set_collateral \in {"send_raises", "wait_raises"}
        THEN Out("Error setting asset as collateral", sending)
        ELSE IF env.symbol = "raises" THEN Out("Error setting collateral in Aave", sending)
        ELSE Out(IF env.use_as_collateral THEN "Successfully enabled"
                 ELSE "Successfully disabled", sending)

set_collateral(env) ==
    /\ pc = "idle"
    /\ pc' = "returned"
    /\ call' = [action |-> "set_collateral", env |-> env]
    /\ result' = [message |-> set_collateral_outcome(env).message]
    /\ wallet_log' = set_collateral_outcome(env).log
    /\ UNCHANGED <<registered_services, config, surfaced, http_log, signer, url_parts,
                   allowed, fetch, approvals>>

\* every combination of answers, a later answer varied only where the code can get
\* to ask for it
NextAave ==
    \/ /\ pc = "idle"
       /\ \E env \in [args_valid : BOOLEAN, network_supported : BOOLEAN,
                      pool : {"ok", "raises"}, asset : {"ok", "ValueError", "raises"},
                      token_info : {"ok", "raises"}, balance_raises : BOOLEAN,
                      wallet_balance : 0..MaxBalance, amount_atomic : 1..MaxBalance,
                      approve : {"ok", "send_raises", "wait_raises", "reverted"},
                      encode_raises : BOOLEAN,
                      supply : {"ok", "send_raises", "wait_raises", "reverted"},
                      error_text : {"not deployed", "call contract function", "other"},
                      symbol : {"ok", "raises"}] :
            /\ env.args_valid \/ env.network_supported
            /\ (env.pool = "raises" \/ env.asset # "ok") => env.token_info = "ok"
            /\ env.token_info = "raises" => ~env.balance_raises
            /\ env.balance_raises => env.wallet_balance = 0 /\ env.amount_atomic = 1
            /\ (env.balance_raises \/ env.wallet_balance < env.amount_atomic)
                   => env.approve = "ok"
            /\ env.approve \in {"send_raises", "wait_raises"} => ~env.encode_raises
            /\ env.encode_raises => env.supply = "ok"
            /\ env.supply \in {"ok", "reverted"} => env.error_text = "other"
            /\ env.supply \in {"send_raises", "wait_raises"} => env.symbol = "ok"
            /\ supply(env)
    \* tokens of 6 and of 8 decimals at 1 and 2 USD, capacities from nothing to 3 USD
    \/ /\ pc = "idle"
       /\ \E env \in [args_valid : BOOLEAN, token_info : {"ok", "raises"},
                      account_data : {"ok", "raises"},
                      total_collateral_base : {0, 5 * Pow10(8)},
                      available_borrows_base : {0, 200, Pow10(8), 3 * Pow10(8)},
                      oracle : {"ok", "raises"},
                      oracle_price : {Pow10(8), 2 * Pow10(8)},
                      amount : 1..MaxBorrow, decimals : {6, 8},
                      borrow : {"ok", "send_raises", "wait_raises", "reverted"},
                      symbol : {"ok", "raises"}] :
            /\ env.args_valid \/ env.token_info = "ok"
            /\ (~env.args_valid \/ env.token_info = "raises") => env.account_data = "ok"
            /\ env.account_data = "raises" => env.total_collateral_base = 0
            /\ env.oracle = "raises" => env.oracle_price = Pow10(8)
            /\ borrow(env)
    \/ /\ pc = "idle"
       /\ \E env \in [args_valid : BOOLEAN, token_info : {"ok", "raises"},
                      account_data : {"ok", "raises"},
                      total_debt_base : {0, Pow10(8)}, amount : {"max", "1"},
                      encode_raises : BOOLEAN,
                      withdraw : {"ok", "send_raises", "wait_raises", "reverted"},
                      symbol : {"ok", "raises"}] :
            /\ env.args_valid \/ env.token_info = "ok"
            /\ (~env.args_valid \/ env.token_info = "raises") => env.account_data = "ok"
            /\ env.account_data = "raises" => env.total_debt_base = 0
            /\ env.encode_raises => env.withdraw = "ok"
            /\ withdraw(env)
    \/ /\ pc = "idle"
       /\ \E env \in [args_valid : BOOLEAN, token_info : {"ok", "raises"},
                      amount : {"max", "1"}, balance_raises : BOOLEAN,
                      wallet_balance : 0..MaxBalance, amount_atomic : 1..MaxBalance,
                      approve : {"ok", "send_raises", "wait_raises", "reverted"},
                      encode_raises : BOOLEAN,
                      repay : {"ok", "send_raises", "wait_raises", "reverted"},
                      symbol : {"ok", "raises"}] :
            /\ env.args_valid \/ env.token_info = "ok"
            /\ env.balance_raises => env.wallet_balance = 0 /\ env.amount_atomic = 1
            /\ env.approve \in {"send_raises", "wait_raises"} => ~env.encode_raises
            /\ env.encode_raises => env.repay = "ok"
            /\ repay(env)
    \/ /\ pc = "idle"
       /\ \E env \in [args_valid : BOOLEAN, asset : {"ok", "raises"},
                      use_as_collateral : BOOLEAN, encode_raises : BOOLEAN,
                      set_collateral : {"ok", "send_raises", "wait_raises", "reverted"},
                      symbol : {"ok", "raises"}] :
            /\ env.args_valid \/ env.asset = "ok"
            /\ set_collateral(env)
    \/ agent_loop

SpecAave == InitChallenge /\ [][NextAave]_vars

(***************************************************************************)
(* Properties of the provider (Spec)                                       *)
(***************************************************************************)
(* cdp_agentkit_core/actions/opensea: approve_nft_for_trading,             *)
(* check_marketplace_approval and list_nft.  approvals is the chain's      *)
(* isApprovedForAll relation; http_log holds the POSTs to the OpenSea API. *)
(* Amounts of ether are carried in units of 10^12 wei, times as seconds.   *)
(***************************************************************************)
\* the largest listing price, in ether
MaxPrice == 2

\* constants.py, lines 7-16
OPENSEA_CONTRACTS ==
    [network_id \in {"base-mainnet", "base-sepolia"} |->
        [seaport |-> "0x00000000000000ADc04C56Bf30aC9d3c0aAF14dC",
         conduit |-> "0x1E0049783F008A0085193E00003D00cd54003c71"]]

\* approve_nft_for_trading.py, lines 32-57: setApprovalForAll(operator, True) sent
\* from the wallet; tx is what invoke_contract(...).wait() does
approve_nft_for_trading(wallet, contract_address, tx) ==
    LET known == wallet.network_id \in DOMAIN OPENSEA_CONTRACTS
        sent == known /\ tx = "ok"
    IN  /\ pc = "idle"
        /\ pc' = "returned"
        /\ call' = [action |-> "approve_nft_for_trading", wallet |-> wallet,
                    contract_address |-> contract_address, tx |-> tx]
        /\ result' = [message |-> IF sent THEN "Approved OpenSea to trade NFTs"
                                  ELSE "Error approving marketplace"]
        /\ approvals' = IF sent
                        THEN approvals \cup
                             {[network_id |-> wallet.network_id,
                               contract_address |-> contract_address,
                               owner |-> wallet.address,
                               operator |-> OPENSEA_CONTRACTS[wallet.network_id].conduit]}
                        ELSE approvals
        /\ UNCHANGED <<registered_services, config, surfaced, http_log, signer, url_parts,
                       allowed, fetch, wallet_log>>

\* utils.py, lines 10-29: isApprovedForAll(owner, operator) read from the chain;
\* any exception, an unknown network included, gives False
check_marketplace_approval(network_id, contract_address, owner_address, read) ==
    /\ pc = "idle"
    /\ pc' = "returned"
    /\ call' = [action |-> "check_marketplace_approval", network_id |-> network_id,
                contract_address |-> contract_address, owner_address |-> owner_address,
                read |-> read]
    /\ allowed' = IF network_id \notin DOMAIN OPENSEA_CONTRACTS \/ read = "raises"
                  THEN FALSE
                  ELSE [network_id |-> network_id, contract_address |-> contract_address,
                        owner |-> owner_address,
                        operator |-> OPENSEA_CONTRACTS[network_id].seaport] \in approvals
    /\ UNCHANGED <<registered_services, config, surfaced, result, http_log, signer,
                   url_parts, fetch, wallet_log, approvals>>

\* list_nft.py, lines 152-193: the "parameters" that submit_listing_to_opensea
\* writes out in full
payload_parameters ==
    [offerer |-> "0x1fc53ac4d509839EC35003512905606a9e1D8b41",
     offer_token |-> "0x341444B4B6C1D2FC9897Fe578361880dd3F77CF5",
     offer_id |-> "0",
     seller_amount |-> 975000, seller |-> "0x1fc53ac4d509839EC35003512905606a9e1D8b41",
     fee_amount |-> 25000,
     startTime |-> 1737276045, endTime |-> 1752914442]

\* list_nft.py, lines 268-316: the order built from the inputs.  The fee is
\* int(base_amount * 0.025); for the prices of the model, whole ethers, the
\* binary64 product is the exact fortieth.
order(wallet, contract_address, token_id, price_in_wei, duration_in_seconds, current_time) ==
    LET fee_amount == (price_in_wei * 25) \div 1000
    IN  [offerer |-> wallet.address,
         offer_token |-> contract_address,
         offer_id |-> token_id,
         seller_amount |-> price_in_wei - fee_amount, seller |-> wallet.address,
         fee_amount |-> fee_amount,
         startTime |-> current_time, endTime |-> current_time + duration_in_seconds]

\* list_nft.py, lines 143-254: the value returned ("None", "result" or "raises")
\* and the POSTs made.  The order passed in is not read.
submit_listing_to_opensea(network_id, the_order, wallet, sign, post) ==
    LET payload == [parameters |-> payload_parameters,
                    signature |-> [signer |-> wallet.address, over |-> payload_parameters]]
        posted == <<[method |-> "POST", network_id |-> network_id, json |-> payload]>>
    IN  IF sign = "raises" THEN [returns |-> "raises", http |-> << >>]
        ELSE IF sign = "failed" THEN [returns |-> "None", http |-> << >>]
        ELSE IF post = "raises" THEN [returns |-> "raises", http |-> posted]
        ELSE IF post = "200" THEN [returns |-> "result", http |-> posted]
        ELSE [returns |-> "None", http |-> posted]

\* list_nft.py, lines 256-411: the message returned and the POSTs made
list_nft_outcome(env) ==
    LET the_order == order(env.wallet, env.contract_address, env.token_id,
                           env.price_in_wei, env.duration_in_seconds, env.current_time)
        submitted == submit_listing_to_opensea(env.wallet.network_id, the_order,
                                               env.wallet, env.sign_payload, env.post)
        Out(message, http) == [message |-> message, http |-> http, order |-> the_order]
    IN  IF env.sign_order = "raises" THEN Out("Error creating listing", << >>)
        ELSE IF env.sign_order = "failed" THEN Out("Error: Failed to sign the listing", << >>)
        ELSE IF env.order_status = "raises" THEN Out("Error creating listing", << >>)
        ELSE IF ~env.has_api_key THEN Out("Created listing signature", << >>)
        ELSE IF submitted.returns = "raises" THEN Out("Error creating listing", submitted.http)
        ELSE IF submitted.returns = "result" THEN Out("Successfully listed NFT", submitted.http)
        ELSE Out("Created listing signature", submitted.http)

list_nft(env) ==
    /\ pc = "idle"
    /\ pc' = "returned"
    /\ call' = [action |-> "list_nft", env |-> env, order |-> list_nft_outcome(env).order]
    /\ result' = [message |-> list_nft_outcome(env).message]
    /\ http_log' = list_nft_outcome(env).http
    /\ UNCHANGED <<registered_services, config, surfaced, signer, url_parts, allowed, fetch,
                   wallet_log, approvals>>

\* two wallets, one of them the address written into submit_listing_to_opensea;
\* two contracts, one of them the token written there
NextOpenSea ==
    \/ /\ pc = "idle"
       /\ \E wallet \in [network_id : {"base-mainnet", "base-sepolia", "ethereum-mainnet"},
                         address : {"0x1fc53ac4d509839EC35003512905606a9e1D8b41", "0xSeller"}],
             contract_address \in {"0x341444B4B6C1D2FC9897Fe578361880dd3F77CF5", "0xNft"},
             tx \in {"ok", "raises"} :
            approve_nft_for_trading(wallet, contract_address, tx)
    \/ /\ pc = "idle"
       /\ \E network_id \in {"base-mainnet", "base-sepolia", "ethereum-mainnet"},
             contract_address \in {"0x341444B4B6C1D2FC9897Fe578361880dd3F77CF5", "0xNft"},
             owner_address \in {"0x1fc53ac4d509839EC35003512905606a9e1D8b41", "0xSeller"},
             read \in {"ok", "raises"} :
            check_marketplace_approval(network_id, contract_address, owner_address, read)
    \/ /\ pc = "idle"
       /\ \E env \in [wallet : [network_id : {"base-sepolia"},
                                address : {"0x1fc53ac4d509839EC35003512905606a9e1D8b41",
                                           "0xSeller"}],
                      contract_address : {"0x341444B4B6C1D2FC9897Fe578361880dd3F77CF5", "0xNft"},
                      token_id : {"0", "7"},
                      price_in_wei : {k * 1000000 : k \in 1..MaxPrice},
                      duration_in_seconds : {15552000, 15638397},
                      current_time : {1737276045},
                      sign_order : {"ok", "failed", "raises"},
                      order_status : {"ok", "raises"}, has_api_key : BOOLEAN,
                      sign_payload : {"ok", "failed", "raises"},
                      post : {"200", "400", "raises"}] :
            /\ env.sign_order # "ok" => env.order_status = "ok"
            /\ (env.sign_order # "ok" \/ env.order_status = "raises") => env.has_api_key
            /\ (env.sign_order # "ok" \/ env.order_status = "raises" \/ ~env.has_api_key)
                   => env.sign_payload = "ok"
            /\ env.sign_payload # "ok" => env.post = "200"
            /\ list_nft(env)
    \/ agent_loop

SpecOpenSea == InitChallenge /\ [][NextOpenSea]_vars

(***************************************************************************)
(* x402_action_provider.py: discover_x402_services as one call, the pages  *)
(* of the facilitator taken together (SpecPages has them one by one).  A   *)
(* resource is [resource, accepts, description, x402Version], description  *)
(* being what _get_resource_description finds in it.                       *)
(***************************************************************************)
\* the largest number of resources a facilitator lists
MaxFetched == 2

\* constants.py, lines 6-9
KNOWN_FACILITATORS ==
    [name \in {"cdp", "payai"} |->
        IF name = "cdp" THEN "https://api.cdp.coinbase.com/platform/v2/x402"
        ELSE "https://facilitator.payai.network"]

\* a validation that lets every name through, resolved to itself
validate_facilitator_open(facilitator, registered_facilitators) ==
    [is_allowed |-> TRUE, resolved_url |-> facilitator]

\* utils.py, lines 752-780
validate_facilitator(facilitator, registered_facilitators) ==
    IF facilitator \in DOMAIN KNOWN_FACILITATORS
    THEN [is_allowed |-> TRUE, resolved_url |-> KNOWN_FACILITATORS[facilitator]]
    ELSE IF facilitator \in DOMAIN registered_facilitators
    THEN [is_allowed |-> TRUE, resolved_url |-> registered_facilitators[facilitator]]
    ELSE [is_allowed |-> FALSE, resolved_url |-> facilitator]

\* utils.py, lines 173-194
filter_by_network(resources, wallet_networks) ==
    LET accepted(resource) ==
            \E i \in DOMAIN resource.accepts :
                InSeq(resource.accepts[i].network, wallet_networks)
    IN  SelectSeq(resources, accepted)

\* a formatter that writes the services last to first
format_simplified_resources_reversed(resources, wallet_networks) ==
    [i \in DOMAIN resources |-> [url |-> resources[Len(resources) + 1 - i].resource,
                                 description |-> resources[Len(resources) + 1 - i].description]]

\* utils.py, lines 378-441: url and description of every resource that has an
\* option on a network of the wallet (the price text is left out)
format_simplified_resources(resources, wallet_networks) ==
    LET kept == filter_by_network(resources, wallet_networks)
    IN  [i \in DOMAIN kept |-> [url |-> kept[i].resource,
                                description |-> kept[i].description]]

\* discover_x402_services, lines 103-185: the JSON returned and the discovery
\* URL fetched; fetched is what fetch_all_discovery_resources comes back with,
\* the resources of all pages or an exception
discover_outcome(cfg, wallet_provider, args, fetched) ==
    LET validation == validate_facilitator(args.facilitator, cfg.registered_facilitators)
        get == <<[method |-> "GET",
                  url |-> [base |-> validation.resolved_url, path |-> "/discovery/resources"]]>>
        wallet_networks == get_x402_networks(wallet_provider)
        \* filter_by_description, lines 225-243
        described(resource) ==
            resource.description \notin {"", "Access to protected content"}
        \* filter_by_x402_version, lines 246-273
        versioned(resource) == resource.x402Version \in args.x402_versions
        \* filter_by_keyword, lines 276-307; descriptions and keywords are single
        \* lower-case words here, so that "in" is equality
        matching(resource) ==
            args.keyword = "" \/ args.keyword = resource.description
        \* filter_by_max_price, lines 310-370
        affordable(resource) ==
            \E i \in DOMAIN resource.accepts :
                LET option == resource.accepts[i]
                    amount_str == OrChain(<<option.max_amount_required,
                                            option.maxAmountRequired, option.amount,
                                            option.price>>)
                IN  /\ InSeq(option.network, wallet_networks)
                    /\ option.asset # << >>
                    /\ is_usdc_asset(option.asset, wallet_provider)
                    /\ IsDecimal(amount_str)
                    /\ DigitsValue(amount_str)
                         <= DigitsValue(_parse_units([n |-> args.max_usdc_price, scale |-> 2],
                                                     usdc_decimals))
        passing(resource) ==
            described(resource) /\ versioned(resource) /\ matching(resource)
                /\ affordable(resource)
        filtered_resources == SelectSeq(filter_by_network(fetched.resources, wallet_networks),
                                        passing)
        simplified_resources == format_simplified_resources(filtered_resources, wallet_networks)
        Json(error, message, services, total) ==
            [error |-> error, message |-> message, services |-> services, total |-> total,
             returned |-> Len(services)]
    IN  IF ~validation.is_allowed
        THEN [result |-> Json(TRUE, "Facilitator not allowed", << >>, 0), http |-> << >>]
        ELSE IF fetched.raises
        THEN [result |-> Json(TRUE, "Failed to list x402 services", << >>, 0), http |-> get]
        ELSE IF Len(fetched.resources) = 0
        THEN [result |-> Json(TRUE, "No services found", << >>, 0), http |-> get]
        ELSE [result |-> Json(FALSE, "", simplified_resources, Len(fetched.resources)), http |-> get]

discover(wallet_provider, args, fetched) ==
    /\ pc = "idle"
    /\ pc' = "returned"
    /\ call' = [action |-> "discover_x402_services", wallet_provider |-> wallet_provider,
                args |-> args, fetched |-> fetched]
    /\ result' = discover_outcome(config, wallet_provider, args, fetched).result
    /\ http_log' = discover_outcome(config, wallet_provider, args, fetched).http
    /\ UNCHANGED <<registered_services, config, surfaced, signer, url_parts, allowed, fetch,
                   wallet_log, approvals>>

\* resources on the wallet's network and off it, cheap and dear, with and
\* without a description; names known, registered and neither
NextDiscover ==
    \/ /\ pc = "idle"
       /\ \E wallet_provider \in Wallets,
             args \in [facilitator : {"cdp", "payai", "custom", "other",
                                      "https://evil.example"},
                       max_usdc_price : {100, 200}, x402_versions : {{1, 2}, {2}},
                       keyword : {"", "weather"}],
             resources \in
                 SeqsUpTo({[resource |-> "https://a.example/weather", accepts |-> <<OptMatch>>,
                            description |-> "weather", x402Version |-> 1],
                           [resource |-> "https://b.example/news", accepts |-> <<OptOther, OptV1Over>>,
                            description |-> "news", x402Version |-> 2],
                           [resource |-> "https://c.example", accepts |-> <<OptOffNet, OptSolana>>,
                            description |-> "weather", x402Version |-> 2],
                           [resource |-> "https://d.example", accepts |-> <<OptMatch>>,
                            description |-> "Access to protected content", x402Version |-> 1],
                           [resource |-> "https://e.example", accepts |-> << >>,
                            description |-> "weather", x402Version |-> 1]}, MaxFetched),
             raises \in BOOLEAN :
            /\ (raises \/ ~validate_facilitator(args.facilitator,
                                                config.registered_facilitators).is_allowed)
                   => resources = << >>
            /\ discover(wallet_provider, args, [raises |-> raises, resources |-> resources])
    \/ agent_loop

SpecDiscover == InitChallenge /\ [][NextDiscover]_vars

(***************************************************************************)
RequestActions ==
    {"make_http_request", "retry_http_request_with_x402",
     "make_http_request_with_x402"}

Returned(action) == pc = "returned" /\ call.action = action

\* C1: each of the three request actions decides on the registry as it is when
\* the call is made: it answers 'Service not registered' exactly when the URL is
\* not allowed by the current registry, and then it has issued no HTTP request and
\* created no signer.
C1_AllowListCheckedAtEveryCall ==
    (pc = "returned" /\ call.action \in RequestActions) =>
        IF is_url_allowed(call.url, registered_services)
        THEN result.message # "Service not registered"
        ELSE /\ result.error
             /\ result.message = "Service not registered"
             /\ http_log = << >>
             /\ ~signer.created

\* C1 witness: the second step of the two-step flow is refused for a URL that is
\* not registered, although a challenge was surfaced before and the option passed
\* is one of the surfaced ones.
C1_Witness ==
    /\ Returned("retry_http_request_with_x402")
    /\ result.message = "Service not registered"
    /\ registered_services # {}
    /\ \E o \in surfaced : PaymentOptionSchema(o) = call.selected_payment_option

\* C2 (as claimed): no action signs a payment whose atomic amount exceeds
\* max_payment_usdc * 10^6.
C2_NoSignedPaymentOverCeiling ==
    signer.signed <= max_amount_atomic(config.max_payment_usdc)

FailedChecks(opt, wallet_provider, cfg) ==
    LET stated == OrChain(<<opt.max_amount_required, opt.amount, opt.price,
                            <<"0">> >>)
    IN  {m \in {"Only USDC payments are supported", "Payment exceeds limit",
                "Network mismatch", "Unsupported wallet provider"} :
            \/ m = "Only USDC payments are supported"
               /\ ~is_usdc_asset(opt.asset, wallet_provider)
            \/ m = "Payment exceeds limit"
               /\ IsDecimal(stated)
               /\ DigitsValue(stated) > cfg.max_payment_usdc * 10000
            \/ m = "Network mismatch"
               /\ ~InSeq(opt.network, get_x402_networks(wallet_provider))
            \/ m = "Unsupported wallet provider"
               /\ ~wallet_provider.is_evm_provider}

\* C4 (as claimed): for an allowed URL, retry_http_request_with_x402 creates the
\* signer or issues a request only if the option passes all four checks, and when
\* a check fails it returns the error of a failed check and neither signs nor
\* issues a request.
C4_RetryReportsTheFailedCheck ==
    (Returned("retry_http_request_with_x402")
     /\ is_url_allowed(call.url, registered_services)) =>
        LET failed == FailedChecks(call.selected_payment_option,
                                   call.wallet_provider, config)
        IN  IF failed = {}
            THEN TRUE
            ELSE /\ result.error
                 /\ result.message \in failed
                 /\ ~signer.created
                 /\ http_log = << >>

\* C5: a paid request is reported as settled exactly when the final status is
\* 200; for every other status the result is a failure saying 'Payment was not
\* settled' and carries no payment proof, whatever proof header came back.
C5_SettledOnlyOn200 ==
    (pc = "returned" /\ signer.created) =>
        /\ Returned("retry_http_request_with_x402") =>
               (result.status = "success"
                    <=> (~call.paid.raises /\ call.paid.status_code = 200))
        /\ Returned("make_http_request_with_x402") =>
               (result.success = "true"
                    <=> (~call.paid.raises /\ call.paid.status_code = 200))
        /\ (~call.paid.raises /\ call.paid.status_code # 200) =>
               /\ result.message = "Payment was not settled"
               /\ result.httpStatus = call.paid.status_code
               /\ result.paymentProof = "absent"
               /\ result.paymentUsed = << >>
               /\ Returned("retry_http_request_with_x402") => result.status = "error"
               /\ Returned("make_http_request_with_x402") => result.success = "false"

\* C5 witness: a paid retry came back 201 with a decodable payment-response
\* header, after a payment was signed, and is reported as not settled.
C5_Witness ==
    /\ Returned("retry_http_request_with_x402")
    /\ signer.signed >= 0
    /\ call.paid.status_code = 201
    /\ call.paid.proof = "b64json"
    /\ result.message = "Payment was not settled"

(***************************************************************************)
(* Properties of the allow-list gate (SpecUrl)                             *)
(***************************************************************************)
\* the origin of a URL: scheme://host[:port], the scheme in lower case
OriginOf(p) ==
    Lower(p.scheme) \o <<":", "/", "/">> \o p.host
    \o (IF p.port = << >> THEN << >> ELSE <<":">> \o p.port)

\* C6 (as claimed): is_url_allowed is true exactly when some registered entry
\* equals the URL's origin scheme://host[:port] or is a string prefix of the URL.
C6_AllowedIffOriginOrPrefix ==
    Returned("is_url_allowed") =>
        (allowed <=> \E entry \in registered_services :
                         \/ entry = OriginOf(url_parts)
                         \/ StartsWith(RenderUrl(url_parts), entry))

(***************************************************************************)
(* Properties of the 402 challenge (SpecChallenge)                         *)
(***************************************************************************)
\* the response make_http_request worked on: the second one when it sent two
FinalResponse == IF Len(http_log) = 2 THEN call.r2 ELSE call.r1

GotChallenge ==
    /\ Returned("make_http_request")
    /\ http_log # << >>
    /\ ~FinalResponse.raises
    /\ FinalResponse.status_code = 402

HeaderUsable(response) ==
    response.header.kind = "decoded" /\ response.header.accepts # << >>

\* the requirements as the claims describe them: the header's list when the
\* header is present, decodable and not empty, else the body's
StatedRequirements(response) ==
    IF HeaderUsable(response) THEN response.header.accepts ELSE response.body.accepts

RequirementsReadable(response) == HeaderUsable(response) \/ response.body.is_json

UsdcOf(options, wallet_provider) ==
    SelectSeq(options, LAMBDA o : is_usdc_asset(o.asset, wallet_provider))

\* C7: a 402 whose requirements hold no USDC option for the wallet is rejected
\* with 'No USDC payment option available', and no acceptablePaymentOptions
\* challenge is returned.
C7_NoUsdcOptionIsRejected ==
    (GotChallenge /\ RequirementsReadable(FinalResponse)
     /\ UsdcOf(StatedRequirements(FinalResponse), call.wallet_provider) = << >>) =>
        /\ result.error
        /\ result.message = "No USDC payment option available"
        /\ ~result.has_options
        /\ result.acceptablePaymentOptions = << >>
        /\ result.status # "error_402_payment_required"
        /\ surfaced = {}

\* C7 witness: the 402 listed options, none of them USDC for the wallet.
C7_Witness ==
    /\ GotChallenge
    /\ StatedRequirements(FinalResponse) # << >>
    /\ result.message = "No USDC payment option available"
    /\ result.originalOptions = StatedRequirements(FinalResponse)

ResultIsFrom(options) ==
    LET usdc == UsdcOf(options, call.wallet_provider)
    IN  \/ /\ usdc = << >>
           /\ result.message = "No USDC payment option available"
           /\ result.originalOptions = options
        \/ /\ usdc # << >>
           /\ result.has_options
           /\ result.acceptablePaymentOptions = usdc
        \/ /\ \E i \in DOMAIN usdc : ~IsDecimal(usdc[i].amount)
           /\ result.message = "Error making request to"

\* C9: on a 402 the requirements are the header's accepts list whenever the
\* header is present, decodable and not empty, whatever the body holds; the
\* body's list is used only otherwise.
C9_HeaderTakesPrecedence ==
    GotChallenge =>
        IF HeaderUsable(FinalResponse)
        THEN ResultIsFrom(FinalResponse.header.accepts)
        ELSE IF FinalResponse.body.is_json
        THEN ResultIsFrom(FinalResponse.body.accepts)
        ELSE result.error /\ result.message = "Error making request to"

\* C9 witness: header and body list different USDC options and the header's
\* are the ones returned.
C9_Witness ==
    /\ GotChallenge
    /\ HeaderUsable(FinalResponse)
    /\ FinalResponse.body.is_json
    /\ FinalResponse.body.accepts = <<OptOffNet>>
    /\ FinalResponse.header.accepts = <<OptMatch>>
    /\ result.acceptablePaymentOptions = <<OptMatch>>

\* C10 (as claimed): a second request is sent only when the method is not one
\* of the body-carrying methods POST, PUT, PATCH.
C10_NoRetryOfBodyCarryingMethods ==
    (Returned("make_http_request") /\ Len(http_log) = 2) =>
        call.method \notin {"POST", "PUT", "PATCH"}

\* C10 (amended): make_http_request retries a 404 once whatever the method: a
\* GET is retried as POST and every other method as GET; a second request is
\* sent exactly when the first one returned 404, and never a third.
C10_RetriesEvery404Once ==
    Returned("make_http_request") =>
        /\ Len(http_log) <= 2
        /\ Len(http_log) = 2 <=>
               /\ is_url_allowed(call.url, registered_services)
               /\ ~call.r1.raises
               /\ call.r1.status_code = 404
        /\ Len(http_log) >= 1 => http_log[1].method = call.method
        /\ Len(http_log) = 2 =>
               http_log[2].method = (IF call.method = "GET" THEN "POST" ELSE "GET")

\* C10 witness: a POST that got 404 was sent again as GET, and the second 404
\* was not retried.
C10_Witness ==
    /\ Returned("make_http_request")
    /\ call.method = "POST"
    /\ Len(http_log) = 2
    /\ http_log[2].method = "GET"
    /\ call.r2.status_code = 404
    /\ result.httpStatus = 404

(***************************************************************************)
(* Properties of the settled retry (Spec)                                  *)
(***************************************************************************)
\* the amounts an option states, in any of its three fields
StatedAmounts(opt) == {opt.max_amount_required, opt.amount, opt.price} \ {<< >>}

\* C11: for an allowed URL, a USDC option on the wallet's network within the
\* ceiling, an EVM wallet and a paid request answered 200, the retry returns
\* status 'success' with a payment summary that carries the option's network and
\* asset as passed and an amount the option states (none when it states none).
C11_SettledRetryReportsPaymentUsed ==
    LET opt == call.selected_payment_option
        stated == OrChain(<<opt.max_amount_required, opt.amount, opt.price,
                            <<"0">> >>)
    IN  (/\ Returned("retry_http_request_with_x402")
         /\ is_url_allowed(call.url, registered_services)
         /\ is_usdc_asset(opt.asset, call.wallet_provider)
         /\ InSeq(opt.network, get_x402_networks(call.wallet_provider))
         /\ IsDecimal(stated)
         /\ DigitsValue(stated) <= config.max_payment_usdc * 10000
         /\ call.wallet_provider.is_evm_provider
         /\ ~call.paid.raises
         /\ call.paid.status_code = 200) =>
            /\ result.status = "success"
            /\ ~result.error
            /\ Len(result.paymentUsed) = 1
            /\ result.paymentUsed[1].network = opt.network
            /\ result.paymentUsed[1].asset = opt.asset
            /\ IF StatedAmounts(opt) = {}
               THEN result.paymentUsed[1].amount = << >>
               ELSE result.paymentUsed[1].amount \in StatedAmounts(opt)

\* C11 witness: a surfaced option was paid, answered 200 with a decodable proof,
\* and the summary names its network, asset and amount.
C11_Witness ==
    /\ Returned("retry_http_request_with_x402")
    /\ result.status = "success"
    /\ call.selected_payment_option = PaymentOptionSchema(OptMatch)
    /\ result.paymentUsed =
           <<[network |-> "eip155:8453", asset |-> UsdcBaseMainnet,
              amount |-> SmallAmount]>>
    /\ result.paymentProof # "absent"

(***************************************************************************)
(* Properties of the discovery paginator (SpecPages)                       *)
(***************************************************************************)
Fetching == fetch.pc \in {"fetching", "retrying"}

\* a step that ends a page request, successfully or not
PageEnds == Fetching /\ fetch'.page_number = fetch.page_number + 1

Failures == {"status", "network"}

\* C12 (as claimed): the loop cannot run forever, every page after which it goes
\* on leaving it strictly closer to the total it runs up to.
C12_EveryPageBringsTheEndCloser ==
    [][(PageEnds /\ fetch.known_total > 0 /\ fetch'.pc = "fetching") =>
           fetch'.known_total - fetch'.offset < fetch.known_total - fetch.offset]_vars

RECURSIVE Received(_)
Received(pages) ==
    IF pages = << >> THEN 0
    ELSE Received(SubSeq(pages, 1, Len(pages) - 1)) + pages[Len(pages)].n

\* every page so far succeeded and reported the total T
ConstantTotal(pages, T) ==
    \A i \in DOMAIN pages : pages[i].kind = "ok" /\ pages[i].total = T

\* every page so far served the next resources of a collection of T
ServesCollection(pages, T) ==
    \A i \in DOMAIN pages :
        LET before == Received(SubSeq(pages, 1, i - 1))
        IN  IF before < T
            THEN pages[i].n >= 1 /\ before + pages[i].n <= T
            ELSE pages[i].n = 0

\* C13: against an API where every page succeeds with the same total T, the
\* offset is the number of resources received, the loop stops exactly when a page
\* was empty or the offset has reached T, no page is requested after that, and
\* when the API serves its collection the result is the T resources in order.
C13_ConstantTotalIsFetchedExactly ==
    \A T \in 0..MaxTotal :
        (fetch.pc \in {"fetching", "done"} /\ fetch.pages # << >>
         /\ ConstantTotal(fetch.pages, T)) =>
            /\ fetch.offset = Received(fetch.pages)
            /\ fetch.all_resources = [i \in 1..fetch.offset |-> i]
            /\ fetch.page_number = Len(fetch.pages) + 1
            /\ fetch.pc = "done" <=>
                   (fetch.last.n = 0 \/ fetch.offset >= T)
            /\ (fetch.pc = "done" /\ ServesCollection(fetch.pages, T)) =>
                   fetch.all_resources = [i \in 1..T |-> i]

\* C13 witness: pages of 2, 2 and 1 resources of a collection of 5, on the scale
\* of page_size = 2, and the loop has stopped after the third.
C13_Witness ==
    /\ fetch.pc = "done"
    /\ fetch.pages = <<OkReply(2, 5), OkReply(2, 5), OkReply(1, 5)>>
    /\ fetch.all_resources = <<1, 2, 3, 4, 5>>
    /\ fetch.page_number = 4

SuccessSeen(pages) == \E i \in DOMAIN pages : pages[i].kind = "ok"

\* C14: a page that failed after its retries is skipped by page_size; the loop
\* then ends if no page has succeeded before or the new offset has reached the
\* last known total, and goes on otherwise; the resources collected are kept.
C14_FailedPageIsSkipped ==
    [][(PageEnds /\ fetch'.last.kind \in Failures) =>
           /\ fetch'.offset = fetch.offset + PageSize
           /\ fetch'.all_resources = fetch.all_resources
           /\ fetch'.pc = IF ~SuccessSeen(fetch.pages) THEN "done"
                          ELSE IF fetch'.offset >= fetch.known_total THEN "done"
                          ELSE "fetching"]_vars

\* C14 witness: after a first page of 1 of 5, the second page failed and was
\* skipped, and the loop went on with the resource it had.
C14_Witness ==
    /\ fetch.pc = "fetching"
    /\ fetch.pages = <<OkReply(1, 5), FailReply("status")>>
    /\ fetch.offset = 1 + PageSize
    /\ fetch.all_resources = <<1>>

\* C15: a page takes at most 4 GETs; before retry k the wait is 1000 * 2^(k-1)
\* ms; an OK response ends the attempts at once; the RuntimeError comes only
\* after the fourth failure in a row, whatever the kind of the failures.
C15_AtMostFourAttemptsWithBackoff ==
    fetch.pc # "idle" =>
        /\ fetch.gets <= 4
        /\ fetch.sleeps = SubSeq(<<1000, 2000, 4000>>, 1, Len(fetch.sleeps))
        /\ fetch.pc = "retrying" =>
               /\ fetch.last.kind \in Failures
               /\ fetch.gets = Len(fetch.sleeps)
               /\ fetch.gets <= 3
        /\ (fetch.pc # "retrying" /\ fetch.gets > 0) =>
               /\ fetch.gets = Len(fetch.sleeps) + 1
               /\ fetch.last.kind \in Failures => fetch.gets = 4

\* C15 witness: the page was given up after four failed GETs of both kinds.
C15_Witness ==
    /\ fetch.gets = 4
    /\ fetch.sleeps = <<1000, 2000, 4000>>
    /\ fetch.last.kind = "network"
    /\ fetch.pages # << >>
    /\ fetch.pages[Len(fetch.pages)].kind = "network"
    /\ fetch.known_total > 0

\* C16: known_total changes only when a page succeeds with a total above 0, and
\* then to that total.
C16_KnownTotalOnlyFromPositiveTotals ==
    [][(Fetching /\ fetch'.known_total # fetch.known_total) =>
           /\ fetch'.last.kind = "ok"
           /\ fetch'.last.total > 0
           /\ fetch'.known_total = fetch'.last.total
           /\ fetch'.page_number = fetch.page_number + 1]_vars

\* C16 witness: the total 5 has survived a failed page and a page without total.
C16_Witness ==
    /\ fetch.known_total = 5
    /\ Len(fetch.pages) = 3
    /\ fetch.pages[1] = OkReply(1, 5)
    /\ fetch.pages[2].kind \in Failures
    /\ fetch.pages[3] = OkReply(1, 0)

\* C17 (as claimed): once a page with resources has been collected, the discovery
\* call succeeds with the resources collected, whatever happens to later pages.
C17_CollectedPagesAreReturned ==
    (pc = "returned" /\ call.action = "discover_x402_services"
     /\ \E i \in DOMAIN fetch.pages :
            fetch.pages[i].kind = "ok" /\ fetch.pages[i].n > 0) =>
        /\ ~result.error
        /\ result.success = "true"
        /\ result.total = Len(fetch.all_resources)
        /\ result.total > 0

(***************************************************************************)
(* Properties of the error handling (SpecErrors)                           *)
(***************************************************************************)
\* C18 (as claimed): every action returns a structured result; none lets an
\* exception through to its caller, whatever the server or the wallet does.
C18_NoActionRaises ==
    pc = "returned" => ~result.exception

(***************************************************************************)
(* C19, C20: the USDC test and the network test                            *)
(***************************************************************************)
\* the USDC address of each network of the mapping, as the claim speaks of it
KnownUsdc(network_id) ==
    CASE network_id = "base-mainnet" -> UsdcBaseMainnet
      [] network_id = "base-sepolia" -> UsdcBaseSepolia
      [] network_id = "solana-mainnet" -> UsdcSolanaMainnet
      [] network_id = "solana-devnet" -> UsdcSolanaDevnet

\* C19 (as claimed): an option is recognised as USDC exactly when its asset equals
\* the known USDC address of the wallet's network with letter case ignored, for
\* EVM and for Solana wallets alike.
C19_UsdcIgnoringCaseForBothFamilies ==
    Returned("is_usdc_asset") =>
        (allowed <=> Lower(call.asset) = Lower(KnownUsdc(call.wallet_provider.network_id)))

\* C19 (amended): for an EVM wallet an option is recognised as USDC exactly when
\* its asset equals the USDC contract address with letter case ignored; for a
\* Solana wallet exactly when it equals the USDC mint address letter for letter.
C19_UsdcIgnoringCaseForEvmOnly ==
    Returned("is_usdc_asset") =>
        LET w == call.wallet_provider
            known == KnownUsdc(w.network_id)
        IN  allowed <=> IF w.protocol_family = "evm"
                        THEN Lower(call.asset) = Lower(known)
                        ELSE call.asset = known

\* C19 witness: a Solana wallet was offered its USDC mint spelled in small
\* letters, which is not the mint, and did not recognise it.
C19_Witness ==
    /\ Returned("is_usdc_asset")
    /\ call.wallet_provider.protocol_family = "svm"
    /\ call.asset # KnownUsdc(call.wallet_provider.network_id)
    /\ Lower(call.asset) = Lower(KnownUsdc(call.wallet_provider.network_id))
    /\ ~allowed

\* the two names of each chain of the mapping, as the claim speaks of them
LegacyForm(network_id) ==
    CASE network_id = "base-mainnet" -> "base"
      [] network_id = "base-sepolia" -> "base-sepolia"
      [] network_id = "solana-mainnet" -> "solana"
      [] network_id = "solana-devnet" -> "solana-devnet"

Caip2Form(network_id) ==
    CASE network_id = "base-mainnet" -> "eip155:8453"
      [] network_id = "base-sepolia" -> "eip155:84532"
      [] network_id = "solana-mainnet" -> "solana:5eykt4UsFv8P8NJdTREpY1vzqKqZKvdp"
      [] network_id = "solana-devnet" -> "solana:EtWTRABZaYq6iMfeYKouRu166VU2xqa1"

\* C20: for a wallet on a network of the mapping, the identifier set is the legacy
\* form and the CAIP-2 form of that chain, holds no form of another chain, and an
\* option matches exactly when its network is one of the two; 'base' and
\* 'eip155:8453' match base-mainnet and do not match base-sepolia.
C20_BothFormsOfTheWalletsChainOnly ==
    Returned("get_x402_networks") =>
        LET id == call.wallet_provider.network_id
            ids == Range(call.wallet_networks)
        IN  /\ ids = {LegacyForm(id), Caip2Form(id)}
            /\ \A other \in NetworkIds \ {id} :
                 ids \cap {LegacyForm(other), Caip2Form(other)} = {}
            /\ allowed <=> call.selected_network \in {LegacyForm(id), Caip2Form(id)}
            /\ call.selected_network \in {"base", "eip155:8453"} =>
                 /\ id = "base-mainnet" => allowed
                 /\ id = "base-sepolia" => ~allowed

\* C20 witness: an option on 'eip155:8453' was matched by a base-mainnet wallet.
C20_Witness ==
    /\ Returned("get_x402_networks")
    /\ call.wallet_provider.network_id = "base-mainnet"
    /\ call.selected_network = "eip155:8453"
    /\ allowed

(***************************************************************************)
(* C21, C24, C25: the limit test and the unit conversions                  *)
(***************************************************************************)
LimitTested == Returned("validate_payment_limit") /\ call.before # << >>

\* C21: of two limit tests of the same amount, the one under the higher (or equal)
\* ceiling accepts whenever the one under the lower ceiling does.
C21_HigherCeilingKeepsValid ==
    (LimitTested /\ call.before[1] = call.amount_atomic) =>
        /\ (call.before[2] <= call.max_payment_usdc /\ call.before[3]) => allowed
        /\ (call.max_payment_usdc <= call.before[2] /\ allowed) => call.before[3]

\* C21 witness: an amount accepted under 2.00 USDC was accepted again under 2.01,
\* a ceiling whose float product falls short.
C21_Witness ==
    /\ LimitTested
    /\ call.before[1] = call.amount_atomic
    /\ call.before[2] = 200
    /\ call.max_payment_usdc = 201
    /\ call.before[3]
    /\ allowed

\* C24 (as claimed): an atomic amount formatted with d decimals and parsed back
\* with d decimals is the amount itself.
C24_FormatThenParseIsIdentity ==
    Returned("_format_units") => DigitsValue(call.parsed) = call.value

\* C25 (as claimed): the limit test compares the amount with the ceiling in
\* atomic integer units obtained without float arithmetic, that is with
\* max_payment_usdc * 10^6 exactly (hundredths * 10^4).
C25_LimitComparedInExactAtomicUnits ==
    Returned("validate_payment_limit") =>
        (allowed <=> DigitsValue(call.amount_atomic) <= call.max_payment_usdc * 10000)

(***************************************************************************)
(* C22: what register_x402_service registers                               *)
(***************************************************************************)
\* the host of a URL: its network location without the user part and the port
HostOf(url) ==
    LET netloc == UrlNetloc(url)
        ats == {i \in DOMAIN netloc : netloc[i] = "@"}
        hostport == IF ats = {} THEN netloc
                    ELSE SubSeq(netloc, (CHOOSE i \in ats : \A j \in ats : j <= i) + 1,
                                Len(netloc))
        colon == FindAny(hostport, {":"}, 1)
    IN  IF colon = 0 THEN hostport ELSE SubSeq(hostport, 1, colon - 1)

\* C22 (as claimed): a registration adds the URL exactly when dynamic registration
\* is enabled and the URL has a scheme and a host; otherwise it returns an error
\* and the registry stays as it was.
C22_RegistersIffEnabledAndSchemeAndHost ==
    [][(pc = "idle" /\ pc' = "returned" /\ call'.action = "register_x402_service") =>
         IF /\ config.allow_dynamic_service_registration
            /\ ~UrlParseRaises(call'.url)
            /\ UrlScheme(call'.url) # << >>
            /\ HostOf(call'.url) # << >>
         THEN /\ registered_services' = registered_services \cup {call'.url}
              /\ result'.success = "true"
         ELSE /\ registered_services' = registered_services
              /\ result'.error]_vars

(***************************************************************************)
(* C23: what an action can change of the provider                          *)
(***************************************************************************)
\* C23: no action changes the configuration (the ceiling, the registration flag,
\* the facilitator map); the registry of services is changed by
\* register_x402_service only.
C23_OnlyRegisterChangesTheProvider ==
    [][/\ config' = config
       /\ registered_services' # registered_services =>
            (pc' = "returned" /\ call'.action = "register_x402_service")]_vars

\* C23 witness: a URL was registered on top of the services of the construction,
\* and requests were answered since.
C23_Witness ==
    /\ Returned("make_http_request")
    /\ registered_services # config.registered_services
    /\ config \in Configs

(***************************************************************************)
(* C29: the outcomes of make_http_request                                  *)
(***************************************************************************)
\* nothing was signed and no request carried a payment
NothingSigned ==
    /\ signer = NoSigner
    /\ \A i \in DOMAIN http_log : ~http_log[i].paid

\* the outcomes the claim lists, in its order, and as the fifth the failure of the
\* request or of the reading of its response
RequestOutcomes ==
    <<result.error /\ result.message = "Service not registered",
      result.success = "true" /\ result.httpStatus # 402 /\ ~result.error,
      result.error /\ result.message = "No USDC payment option available",
      result.status = "error_402_payment_required" /\ result.has_options /\ ~result.error,
      \/ result.exception
      \/ result.error /\ result.message \in {"HTTP error when accessing",
                                             "Network error when accessing",
                                             "Error making request to"}>>

\* C29 (as claimed): make_http_request signs nothing and ends in exactly one of
\* four outcomes: not registered, completed with a non-402 response, no USDC
\* option, or a payment-required challenge listing the options.
C29_NoSigningAndFourOutcomes ==
    Returned("make_http_request") =>
        /\ NothingSigned
        /\ Cardinality({i \in 1..4 : RequestOutcomes[i]}) = 1

\* C29 (amended): make_http_request signs nothing and ends in exactly one of five
\* outcomes: the four above, or the failure of the request or of the reading of
\* its response, reported by handle_http_error (or escaping from it).
C29_NoSigningAndFiveOutcomes ==
    Returned("make_http_request") =>
        /\ NothingSigned
        /\ Cardinality({i \in 1..5 : RequestOutcomes[i]}) = 1

\* C29 witness: the request to a registered service failed in transport and the
\* call ended in the network error, nothing signed.
C29_Witness ==
    /\ Returned("make_http_request")
    /\ call.r1.raises
    /\ http_log # << >>
    /\ RequestOutcomes[5]
    /\ NothingSigned

(***************************************************************************)
(* C26, C27, C28: Aave supply                                              *)
(***************************************************************************)
\* the wallet calls of the invocation that concern the transaction tx
CallsFor(tx) == {i \in DOMAIN wallet_log : wallet_log[i].tx = tx}

\* C26: a supply on an unsupported network, or of more than the wallet's balance,
\* makes no wallet call at all and returns the 'not supported' or the
\* 'Insufficient balance' error.
C26_NoTransactionWithoutNetworkOrBalance ==
    Returned("supply") =>
        LET env == call.env
            reached_balance == /\ env.args_valid /\ env.network_supported
                               /\ env.pool = "ok" /\ env.asset = "ok"
                               /\ env.token_info = "ok" /\ ~env.balance_raises
        IN  /\ (~env.network_supported \/ env.wallet_balance < env.amount_atomic)
                   => wallet_log = << >>
            /\ (env.args_valid /\ ~env.network_supported)
                   => result.message = "is not supported by Aave"
            /\ (reached_balance /\ env.wallet_balance < env.amount_atomic)
                   => result.message = "Insufficient balance"

\* C26 witness: the balance was read, was one unit short, and nothing was sent.
C26_Witness ==
    /\ Returned("supply")
    /\ call.env.wallet_balance + 1 = call.env.amount_atomic
    /\ result.message = "Insufficient balance"
    /\ wallet_log = << >>

SupplyStages(env) ==
    <<[fails |-> ~env.network_supported, message |-> "is not supported by Aave"],
      [fails |-> env.pool = "raises", message |-> "Could not get Aave Pool address"],
      [fails |-> env.asset # "ok",
       message |-> IF env.asset = "ValueError" THEN "Asset not supported"
                   ELSE "Could not get asset address"],
      [fails |-> env.token_info = "raises", message |-> "Could not get token information"],
      [fails |-> env.balance_raises \/ env.wallet_balance < env.amount_atomic,
       message |-> IF env.balance_raises THEN "Could not check balance"
                   ELSE "Insufficient balance"],
      [fails |-> env.approve \in {"send_raises", "wait_raises"},
       message |-> "Error approving token for Aave"],
      [fails |-> env.supply \in {"send_raises", "wait_raises"},
       message |-> IF env.error_text \in {"not deployed", "call contract function"}
                   THEN "This token may not be properly supported by Aave"
                   ELSE "Error executing supply transaction"]>>

\* C28 (as claimed): the result of a supply with well-formed arguments is the
\* message of the first stage that fails, no later stage having run, and success
\* when none fails.
C28_FirstFailingStageDecides ==
    (Returned("supply") /\ call.env.args_valid) =>
        LET stages == SupplyStages(call.env)
            failing == {i \in DOMAIN stages : stages[i].fails}
            first == CHOOSE i \in failing : \A j \in failing : i <= j
        IN  IF failing = {} THEN result.message = "Successfully supplied"
            ELSE /\ result.message = stages[first].message
                 /\ first <= 5 => wallet_log = << >>
                 /\ first = 6 => CallsFor("supply") = {}

(***************************************************************************)
(* C30: Aave borrow                                                        *)
(***************************************************************************)
\* C30 (as claimed): a borrow makes a wallet call only if the account has
\* collateral, the oracle price was read, and the value of the request on the
\* 10^8 scale, amount times the oracle price, is within availableBorrowsBase.
C30_BorrowOnlyWithinCapacity ==
    (Returned("borrow") /\ wallet_log # << >>) =>
        /\ call.env.total_collateral_base > 0
        /\ call.env.oracle = "ok"
        /\ call.env.amount * call.env.oracle_price <= call.env.available_borrows_base

(***************************************************************************)
(* C31, C32, C39: the five Aave transactions                               *)
(***************************************************************************)
\* the answer of the wallet to the action's own transaction, "none" when the
\* action did not come to send it
OwnTransaction ==
    IF CallsFor(call.action) = {} THEN "none" ELSE call.env[call.action]

AaveReturned == \E a \in {"supply", "withdraw", "borrow", "repay", "set_collateral"} : Returned(a)

Succeeded ==
    result.message \in {"Successfully supplied", "Successfully withdrew", "Successfully borrowed",
                        "Successfully repaid", "Successfully enabled", "Successfully disabled"}

\* C31 (as claimed): an Aave action answers 'Successfully ...' only when its own
\* transaction was sent and its receipt came with status 1.
C31_SuccessOnlyAfterStatusOne ==
    (AaveReturned /\ Succeeded) => OwnTransaction = "ok"

\* C32: a withdraw of 'max' by an account with debt, and a withdraw whose account
\* data cannot be read, make no wallet call and return their own errors.
C32_NoWithdrawOfAllWithDebt ==
    (Returned("withdraw") /\ call.env.args_valid /\ call.env.token_info = "ok") =>
        /\ call.env.account_data = "raises" =>
             wallet_log = << >> /\ result.message = "Error checking account data"
        /\ (call.env.account_data = "ok" /\ call.env.total_debt_base > 0
                /\ call.env.amount = "max") =>
             wallet_log = << >> /\ result.message = "You have active borrows"

\* C32 witness: 'max' was asked for by an account in debt, and refused.
C32_Witness ==
    /\ Returned("withdraw")
    /\ call.env.amount = "max"
    /\ call.env.total_debt_base > 0
    /\ result.message = "You have active borrows"
    /\ wallet_log = << >>

\* C39 (as claimed): an Aave action that does not answer 'Successfully ...' has
\* sent no transaction.
C39_ErrorMeansNothingSent ==
    (AaveReturned /\ ~Succeeded) =>
        \A i \in DOMAIN wallet_log :
            ~(wallet_log[i].op = "send_transaction" /\ ~wallet_log[i].raised)

(***************************************************************************)
(* C33, C34: OpenSea                                                       *)
(***************************************************************************)
\* C34 (as claimed): when the chain holds the approval that approve_nft_for_trading
\* grants for a network, contract and owner, check_marketplace_approval for the
\* same three, its read answered, returns true.
C34_ApprovalGrantedIsApprovalChecked ==
    (/\ Returned("check_marketplace_approval")
     /\ call.read = "ok"
     /\ \E a \in approvals : /\ a.network_id = call.network_id
                             /\ a.contract_address = call.contract_address
                             /\ a.owner = call.owner_address)
        => allowed

\* C33 (as claimed): every listing posted to the OpenSea API is the order built
\* from the inputs of the call, signed by the wallet: offerer the wallet, offer
\* the given contract and token, the two amounts adding up to the price, end
\* time the start time plus the duration.
C33_SubmittedListingIsTheOrder ==
    Returned("list_nft") =>
        \A i \in DOMAIN http_log :
            LET parameters == http_log[i].json.parameters
                env == call.env
            IN  /\ parameters = call.order
                /\ parameters.offerer = env.wallet.address
                /\ parameters.offer_token = env.contract_address
                /\ parameters.offer_id = env.token_id
                /\ parameters.seller_amount + parameters.fee_amount = env.price_in_wei
                /\ parameters.endTime = parameters.startTime + env.duration_in_seconds
                /\ http_log[i].json.signature.over = call.order

(***************************************************************************)
(* C35, C36: discovery                                                     *)
(***************************************************************************)
\* C35: discover_x402_services fetches only for a known or a registered name, and
\* then from the URL that name resolves to plus /discovery/resources; for any other
\* name it answers 'Facilitator not allowed' and makes no request.
C35_DiscoveryOnlyFromResolvedFacilitator ==
    Returned("discover_x402_services") =>
        LET name == call.args.facilitator
            named == (DOMAIN KNOWN_FACILITATORS) \cup (DOMAIN config.registered_facilitators)
        IN  IF name \in named
            THEN /\ Len(http_log) = 1
                 /\ http_log[1].url.path = "/discovery/resources"
                 /\ http_log[1].url.base =
                        IF name \in DOMAIN KNOWN_FACILITATORS THEN KNOWN_FACILITATORS[name]
                        ELSE config.registered_facilitators[name]
                 /\ result.message # "Facilitator not allowed"
            ELSE /\ http_log = << >>
                 /\ result.error /\ result.message = "Facilitator not allowed"

\* C35 witness: a URL given as the name was refused without a request.
C35_Witness ==
    /\ Returned("discover_x402_services")
    /\ call.args.facilitator = "https://evil.example"
    /\ result.message = "Facilitator not allowed"
    /\ http_log = << >>

\* C36: the services returned are fetched resources in the order they were
\* fetched, each with an option on a network of the wallet, and 'returned' is
\* their number and at most 'total'.
C36_ServicesAreFetchedInOrderOnNetwork ==
    (Returned("discover_x402_services") /\ ~result.error) =>
        /\ result.returned = Len(result.services)
        /\ result.total = Len(call.fetched.resources)
        /\ result.returned <= result.total
        /\ \E at \in [DOMAIN result.services -> DOMAIN call.fetched.resources] :
             /\ \A i, j \in DOMAIN result.services : i < j => at[i] < at[j]
             /\ \A i \in DOMAIN result.services :
                  LET resource == call.fetched.resources[at[i]]
                  IN  /\ result.services[i].url = resource.resource
                      /\ \E k \in DOMAIN resource.accepts :
                           InSeq(resource.accepts[k].network,
                                 get_x402_networks(call.wallet_provider))

\* C36 witness: two resources fetched, the second one returned alone.
C36_Witness ==
    /\ Returned("discover_x402_services")
    /\ Len(call.fetched.resources) = 2
    /\ result.returned = 1
    /\ result.services[1].url = call.fetched.resources[2].resource
    /\ call.fetched.resources[1].resource # call.fetched.resources[2].resource

(***************************************************************************)
(* C38: the networks the provider supports and the USDC test               *)
(***************************************************************************)
\* C38 (as claimed): on every network for which supports_network is true,
\* is_usdc_asset recognises that network's own USDC address.
C38_SupportedNetworkRecognisesItsUsdc ==
    (/\ Returned("supports_network")
     /\ call.supported
     /\ call.asset = KnownUsdc(call.wallet_provider.network_id))
        => allowed

(***************************************************************************)
(* C37: the registry over the provider's lifetime                          *)
(***************************************************************************)
\* C37: no step removes a registered URL; registering a URL that is registered
\* leaves the registry and the count it reports as they were; and a URL the
\* registry allows is still allowed after every step.
C37_RegistryOnlyGrows ==
    [][/\ registered_services \subseteq registered_services'
       /\ (/\ call'.action = "register_x402_service"
           /\ pc = "idle"
           /\ call'.url \in registered_services)
            => /\ registered_services' = registered_services
               /\ result'.success = "true"
                    => result'.totalRegisteredServices = Cardinality(registered_services)
       /\ \A url \in Urls : is_url_allowed(url, registered_services)
                               => is_url_allowed(url, registered_services')]_vars

\* C37 witness: a URL registered at construction was registered again, and the
\* registry is the one of the construction.
C37_Witness ==
    /\ Returned("register_x402_service")
    /\ result.success = "true"
    /\ call.url \in config.registered_services
    /\ registered_services = config.registered_services
    /\ result.totalRegisteredServices = Cardinality(config.registered_services)

\* the order in which retry_http_request_with_x402 evaluates its checks, by the
\* error message each check returns
CheckOrder ==
    <<"Service not registered", "Only USDC payments are supported",
      "Payment exceeds limit", "Network mismatch", "Unsupported wallet provider">>

\* the checks of CheckOrder that the current retry call fails
FailedInOrder ==
    {i \in DOMAIN CheckOrder :
        \/ i = 1 /\ ~is_url_allowed(call.url, registered_services)
        \/ i > 1 /\ CheckOrder[i] \in FailedChecks(call.selected_payment_option,
                                                   call.wallet_provider, config)}

\* C40: retry_http_request_with_x402 evaluates its checks in the order
\* allow-list, USDC asset, spending limit, network match, wallet type, and a
\* call whose option fails one or several checks returns the error of the
\* earliest failed check in that order, signing and sending nothing.
C40_EarliestFailedCheckIsReported ==
    (Returned("retry_http_request_with_x402") /\ FailedInOrder # {}) =>
        LET first == CHOOSE i \in FailedInOrder :
                         \A j \in FailedInOrder : i <= j
        IN  /\ result.error
            /\ result.message = CheckOrder[first]
            /\ ~signer.created
            /\ http_log = << >>

\* the earliest failed check decides for every option whose amount is an integer
C40_IntegerAmountsFollowTheOrder ==
    (/\ Returned("retry_http_request_with_x402")
     /\ FailedInOrder # {}
     /\ ~validate_payment_limit_raises(
            payment_amount(call.selected_payment_option))) =>
        LET first == CHOOSE i \in FailedInOrder :
                         \A j \in FailedInOrder : i <= j
        IN  result.message = CheckOrder[first]

\* a call whose option fails two checks after a limit check that raised
C40_SeveralFailedAfterRaise ==
    /\ Returned("retry_http_request_with_x402")
    /\ Cardinality(FailedInOrder) >= 2
    /\ \A i \in FailedInOrder : i > 3
    /\ validate_payment_limit_raises(payment_amount(call.selected_payment_option))
    /\ result.message = handle_http_error(PlainError)

====
